---- MODULE Spec2Model ----
(***************************************************************************)
(* Verification model of the Utah agent harness (inngest/utah).            *)
(*                                                                         *)
(*   Spec          the agent-handle-message function under the substrate's *)
(*                 concurrency and cancelOn contracts, with the agent loop *)
(*                 of src/agent-loop.ts run as durable steps               *)
(*   FairSpec      Spec with weak fairness on the substrate's scheduling   *)
(*   SessionSpec   the session store and the compactor on their own        *)
(*   PruneSpec     pruneOldToolResults applied to bounded message arrays   *)
(*   PruneLoopSpec the pruner's call in the iterations of the loop         *)
(*   HeartbeatSpec the agent-heartbeat function                            *)
(*   ReplaySpec    the loop re-executed over its recorded step outputs     *)
(*   AgentSpec     the loop with its tools, the overflow recovery and the  *)
(*                 sub-agent it invokes                                    *)
(*   OverflowSpec  the overflow recovery after turns of many tool calls    *)
(*   LoadSpec      loadSession on a session file with malformed lines      *)
(*   LongSessionSpec  a run of the message function on a long session      *)
(*   LongFileSpec  the compact step on a file of more than maxMessages     *)
(*   RememberSpec  remember calls of two sessions on one daily log         *)
(*   FailureSpec   the global failure handler                              *)
(*   TransformSpec the webhook transforms of Slack and Telegram            *)
(*   SendSpec      send-reply posting the chunks of a response             *)
(*   CancelSpec    a newer message cancelling a run that awaits its        *)
(*                 sub-agent                                               *)
(***************************************************************************)
EXTENDS Integers, Sequences, FiniteSets, TLC

(***************************************************************************)
(* Bounds of the model.                                                    *)
(***************************************************************************)
MaxEvents == 2
MaxToolCalls == 2
MaxSessionLen == 4
MaxWrites == 5
MaxClock == 2
MaxMessages == 8
MaxHours == 10
MaxMemo == 9
MaxCrashes == 2
MaxCalls == 2
\* LoadSpec: lines of the session file
MaxLines == 4
\* RememberSpec: remember calls per session
MaxNotes == 2
\* FailureSpec: agent-handle-message runs that fail
MaxFailures == 2
\* SendSpec: chunks splitMessage cuts a response into
MaxChunks == 2
\* LongSessionSpec: messages that arrive on the filled session
MaxLaterMessages == 1
\* OverflowSpec: tool calls of a run
MaxReads == 6
\* LongFileSpec: records written to the session file, and the lengths of
\* the records appended
MaxFileWrites == 12
LongFileLens == {4, 480004}
\* PruneLoopSpec: iterations of the loop, and the messages its array grows to
MaxPruneIterations == 5
MaxLoopMessages == 10

SessionKeys == {"a"}
MessageIds == {1, 2}
\* Lengths (in characters) of the incoming messages of Spec: short ones, so
\* that its runs stay below the compaction threshold (SessionSpec has the rest).
MessageLens == {4}
\* Lengths of the records the session store is driven with in SessionSpec.
RecordLens == {4, 40000, 480004}
\* Lengths of the tool-result texts the pruner is driven with in PruneSpec.
ToolTextLens == {4000, 4001, 30000}
\* Sizes (in bytes) today's daily log grows to, and the hours the clock
\* advances by, in HeartbeatSpec.
LogSizes == {4096, 4097}
HourSteps == {1, 8}
\* Numbers of records the session file already holds when the message of
\* AgentSpec arrives.
PriorRecords == {0, 5}
\* Ages (in days) of the daily logs on disk in HeartbeatSpec: today's, and one
\* older than the retention window.  The runs modelled fall within one day.
Today == 0
LogAges == {Today, 31}
OldLogSize == 100

(***************************************************************************)
(* Program constants.                                                      *)
(***************************************************************************)
maxIterations == 20
maxTokens == 150000
\* config.compaction.threshold = 0.8, kept as tenths
thresholdTenths == 8
keepRecentTokens == 20000
maxMessages == 10
retries == 2
concurrencyLimit == 1
\* length of the fixed text around the summary in runCompaction's summaryMessage
SummaryWrapLen == 107
\* length of "(Reached max iterations: 20)"
MaxIterTextLen == 28
\* length of a final text reply and of a summary returned by the LLM
ReplyTextLen == 8
SummaryTextLen == 40
\* lengths of response.text of the summarization call: a summary, or the
\* empty text of a call that failed or returned no text block
SummaryLens == {0, SummaryTextLen}
\* PRUNING
keepLastAssistantTurns == 3
maxChars == 4000
headChars == 1500
tailChars == 1500
hardClearThreshold == 50000
\* length of "[Tool result cleared — old context]"
PlaceholderLen == 35
\* length of "\n\n... [" and " chars trimmed] ...\n\n" together
TrimMarkerLen == 28
\* heartbeat.ts
LOG_SIZE_THRESHOLD == 4096
MAX_HOURS_BETWEEN == 8
DAYS_TO_REVIEW == 7
DAYS_TO_KEEP == 30

VARIABLES
    events,     \* agent.message.received events, in arrival order
    runs,       \* runs[i]: the agent-handle-message run triggered by events[i]
    session,    \* session[k]: the records of sessions/<k>.jsonl, in file order
    replies,    \* agent.reply.ready events emitted, in order
    now,        \* the wall clock read by new Date()
    nextSeq,    \* number of records ever written (insertion counter)
    compIn,     \* input of the latest runCompaction call
    compOut,    \* its return value
    compWrote,  \* whether that call rewrote the session file
    prunerMessages, \* the loop's messages array, as the pruner is given it
    prunedOnce,     \* the array after the latest pruneOldToolResults call
    prunedTwice,    \* the array after one more call on its result
    prunerIterations, \* the loop's iterations counter, as the pruner's call sees it
    prunerCalledAt,   \* iterations at the latest pruneOldToolResults call (0: none)
    hb,         \* the agent-heartbeat run: its position and what it did
    memory,     \* MEMORY.md: its last_heartbeat marker (none, or one instant)
    memoryText, \* MEMORY.md: its content apart from the marker ("": empty)
    dailyLogs,  \* dailyLogs[a]: size of the daily log dated a days ago (0: none)
    hbClock,    \* Date.now() of the heartbeat, in hours
    replay,  \* the execution of the loop that crashes and is run again: locals, position
    memo,  \* the outputs recorded for its completed steps, in order
    straight, \* the same outputs given to an execution that is never interrupted
    ag,  \* ag[w]: the loop run of the main agent ("parent") and of its sub-agent ("child")
    files,  \* the session files on disk: files[k] holds the records of sessions/<k>.jsonl
    invokedBy, \* the runs that have invoked the sub-agent function
    disk,  \* LoadSpec: the session file on disk, if any, as its lines
    loaded, \* LoadSpec: the last loadSession call: the file it read and its result
    dayLog,  \* RememberSpec: the notes in the daily log of today, in file order
    rem, \* RememberSpec: per session, the remember call in progress and the notes saved
    failed,  \* FailureSpec: the inngest/function.failed events emitted so far
    fh,  \* FailureSpec: the global-failure-handler run of each of them
    notices, \* FailureSpec: the messages sent through channel handlers
    sendReplyRuns, \* the agent.reply.ready events (by their place in replies) for which send-reply has run
    hook, \* TransformSpec: the last webhook delivery: channel, payload, headers and the event the transform returned
    sending,  \* SendSpec: the send-reply run: its attempt and the chunk its send step is at
    posted, \* SendSpec: the chunks posted to the channel, in order, and as what (formatted, plain)
    cancelled  \* CancelSpec: the handleMessage run that a newer message of its session has cancelled

prunerVars == <<prunerMessages, prunedOnce, prunedTwice, prunerIterations, prunerCalledAt>>
heartbeatVars == <<hb, memory, memoryText, dailyLogs, hbClock>>
loopVars == <<events, runs, session, replies, now, nextSeq, compIn, compOut, compWrote>>
replayVars == <<replay, memo, straight>>
agentVars == <<ag, files, invokedBy>>
loadVars == <<disk, loaded>>
rememberVars == <<dayLog, rem>>
failureVars == <<failed, fh, notices>>
replyVars == <<sendReplyRuns>>
transformVars == <<hook>>
sendVars == <<sending, posted>>
cancelVars == <<cancelled>>
vars == <<loopVars, prunerVars, heartbeatVars, replayVars, agentVars, loadVars, rememberVars, failureVars, replyVars, transformVars, sendVars, cancelVars>>

(***************************************************************************)
(* Helpers.                                                                *)
(***************************************************************************)
Max(a, b) == IF a > b THEN a ELSE b
Min(a, b) == IF a < b THEN a ELSE b
CeilDiv(a, b) == (a + b - 1) \div b
LastN(s, n) == SubSeq(s, Max(1, Len(s) - n + 1), Len(s))
SelectRoles(s, roles) == SelectSeq(s, LAMBDA m : m.role \in roles)

(***************************************************************************)
(* Session store: src/lib/session.ts.                                      *)
(* A record is [role, content, timestamp, seq]; content is the text, held  *)
(* as what it says (kind, n) and its length; seq is the insertion number.  *)
(***************************************************************************)
Text(kind, n, len) == [kind |-> kind, n |-> n, len |-> len]

SessionMessage(role, content, timestamp, seq) ==
    [role |-> role, content |-> content, timestamp |-> timestamp, seq |-> seq]

\* appendToSession: one record, stamped new Date(), appended to the file
appendToSessionTwice(file, role, content, clock, seq) ==
    Append(Append(file, SessionMessage(role, content, clock, seq)),
           SessionMessage(role, content, clock, seq))
appendToSession(file, role, content, clock, seq) ==
    Append(file, SessionMessage(role, content, clock, seq))

\* A line that is not JSON (a torn or hand-edited line), and JSON.parse
\* succeeding on a line.
MalformedLine == SessionMessage("", Text("malformed", 0, 1), 0, 0)
Parses(line) == line # MalformedLine

\* loadSession: the last maxMsgs records in file order; every line is parsed
\* before the slice, and a JSON.parse that throws is caught with the read
\* errors: return [].
loadSession(file, maxMsgs) ==
    IF \A i \in DOMAIN file : Parses(file[i]) THEN LastN(file, maxMsgs) ELSE <<>>

\* writeSession: replaces the file's contents by the given records
writeSession(file, messages) == messages

\* buildConversationHistory (src/lib/context.ts): user and assistant records
\* among the last maxMessages
buildConversationHistory(file) ==
    SelectRoles(loadSession(file, maxMessages), {"user", "assistant"})

(***************************************************************************)
(* Compactor: lib/compaction.ts.                                           *)
(***************************************************************************)
estimateMessageTokens(msg) == CeilDiv(msg.content.len, 4)

RECURSIVE estimateTokens(_)
estimateTokens(messages) ==
    IF messages = <<>> THEN 0
    ELSE estimateMessageTokens(Head(messages)) + estimateTokens(Tail(messages))

\* estimated > maxTokens * 0.8
shouldCompact(messages) ==
    estimateTokens(messages) * 10 > maxTokens * thresholdTenths

\* The walk from the tail: 0-based index i of the first message (from the end)
\* at which the running sum reaches keepRecentTokens; messages.length if none.
RECURSIVE CutWalk(_, _, _)
CutWalk(messages, i, recentTokens) ==
    IF i < 0 THEN Len(messages)
    ELSE LET sum == recentTokens + estimateMessageTokens(messages[i + 1])
         IN  IF sum >= keepRecentTokens THEN i
             ELSE CutWalk(messages, i - 1, sum)

CutIndex(messages) == CutWalk(messages, Len(messages) - 1, 0)

\* toKeep = messages.slice(cutIndex)
ToKeepAfterCut(messages, cutIndex) == SubSeq(messages, cutIndex + 2, Len(messages))
ToKeep(messages, cutIndex) == SubSeq(messages, cutIndex + 1, Len(messages))

summaryMessage(summaryLen, clock, seq) ==
    SessionMessage("user", Text("summary", 0, SummaryWrapLen + summaryLen), clock, seq)

\* runCompaction: [out: the returned array, wrote: whether writeSession ran]
runCompaction(messages, summaryLen, clock, seq) ==
    LET cutIndex == CutIndex(messages)
    IN  IF cutIndex <= 1
        THEN [out |-> messages, wrote |-> FALSE]
        ELSE [out |-> <<summaryMessage(summaryLen, clock, seq)>>
                        \o ToKeep(messages, cutIndex),
              wrote |-> TRUE]

(***************************************************************************)
(* The substrate's contracts declared by handleMessage:                    *)
(* src/functions/message.ts, lines 17-30.                                  *)
(***************************************************************************)
Event(key, mid, len) == [sessionKey |-> key, messageId |-> mid, len |-> len]

\* concurrency: [{ scope: "fn", key: "event.data.sessionKey", limit: 1 }]
concurrencyKey(e) == e.sessionKey

\* cancelOn: match "data.sessionKey",
\* if "async.data.destination.messageId != event.data.destination.messageId"
cancelOnSameMessage(event, async) ==
    /\ async.sessionKey = event.sessionKey
    /\ async.messageId = event.messageId
cancelOnAnyMessage(event, async) == async.sessionKey = event.sessionKey
cancelOn(event, async) ==
    /\ async.sessionKey = event.sessionKey
    /\ async.messageId # event.messageId

NoText == Text("none", 0, 0)

NewRun ==
    [status |-> "queued", pc |-> "none", inStep |-> FALSE, attempt |-> 0,
     iterations |-> 0, thinks |-> 0, compactions |-> 0, done |-> FALSE,
     hasCompactedThisRun |-> FALSE, onlyToolCalls |-> TRUE, toolsLeft |-> 0,
     finalResponse |-> NoText, history |-> <<>>]

Runs == DOMAIN runs
InFlight(r) == runs[r].status = "running"
Terminal(r) == runs[r].status \in {"completed", "failed", "cancelled"}

\* A run leaves the function: its locals are gone. A step body already handed
\* to the worker keeps running with what it captured.
Stopped(run, status) ==
    [NewRun EXCEPT !.status = status,
                   !.pc = IF run.inStep THEN run.pc ELSE "none",
                   !.inStep = run.inStep,
                   !.finalResponse = IF run.inStep \/ status = "completed"
                                     THEN run.finalResponse ELSE NoText,
                   !.history = IF run.inStep THEN run.history ELSE <<>>]

(***************************************************************************)
(* The agent loop between steps: src/agent-loop.ts.                        *)
(***************************************************************************)
\* What callLLM returns, as far as the loop looks at it.
LLMResponse(stopReason, toolCalls, hasText, isOverflow) ==
    [stopReason |-> stopReason, toolCalls |-> toolCalls, hasText |-> hasText,
     isOverflow |-> isOverflow]

LLMResponses ==
    {LLMResponse("stop", 0, t, FALSE) : t \in BOOLEAN}
    \cup {LLMResponse("toolUse", k, FALSE, FALSE) : k \in 1..MaxToolCalls}
    \cup {LLMResponse("error", 0, FALSE, o) : o \in BOOLEAN}

MaxIterText == Text("maxiter", maxIterations, MaxIterTextLen)

\* while (!done && iterations < maxIterations) { iterations++; ... think
\* and, past the loop, if (!done) finalResponse = "(Reached max iterations: N)"
LoopHeadOffByOne(run) ==
    IF ~run.done /\ run.iterations <= maxIterations
    THEN [run EXCEPT !.iterations = @ + 1, !.pc = "think"]
    ELSE [run EXCEPT !.pc = "save-response",
                     !.finalResponse = IF run.done THEN @ ELSE MaxIterText]
LoopHead(run) ==
    IF ~run.done /\ run.iterations < maxIterations
    THEN [run EXCEPT !.iterations = @ + 1, !.pc = "think"]
    ELSE [run EXCEPT !.pc = "save-response",
                     !.finalResponse = IF run.done THEN @ ELSE MaxIterText]

\* throw new Error(`LLM error: ${errMsg}`): the attempt ends; nothing of it
\* but the recorded steps outlives it.
Thrown(run) ==
    [NewRun EXCEPT !.status = run.status, !.pc = "throw", !.attempt = run.attempt,
                   !.onlyToolCalls = FALSE]

\* if (isOverflow && !hasCompactedThisRun)
OverflowRecoveryAlways(run, resp) == resp.isOverflow
OverflowRecovery(run, resp) == resp.isOverflow /\ ~run.hasCompactedThisRun

\* The loop body after the think step has returned resp (lines 229-350).
AfterThinkAnyText(r, run, resp) ==
    LET seen == [run EXCEPT !.onlyToolCalls = @ /\ resp.toolCalls > 0]
    IN  IF resp.stopReason = "error"
        THEN IF OverflowRecovery(run, resp)
             THEN LoopHead([seen EXCEPT !.hasCompactedThisRun = TRUE,
                                        !.iterations = @ - 1])
             ELSE Thrown(seen)
        ELSE IF resp.toolCalls > 0
        THEN [seen EXCEPT !.toolsLeft = resp.toolCalls, !.pc = "tool"]
        ELSE LoopHead([seen EXCEPT !.finalResponse = IF resp.hasText
                                                     THEN Text("text", r, ReplyTextLen)
                                                     ELSE NoText,
                                   !.done = TRUE])
AfterThink(r, run, resp) ==
    LET seen == [run EXCEPT !.onlyToolCalls = @ /\ resp.toolCalls > 0]
    IN  IF resp.stopReason = "error"
        THEN IF OverflowRecovery(run, resp)
             THEN LoopHead([seen EXCEPT !.hasCompactedThisRun = TRUE,
                                        !.iterations = @ - 1])
             ELSE Thrown(seen)
        ELSE IF resp.toolCalls > 0
        THEN [seen EXCEPT !.toolsLeft = resp.toolCalls, !.pc = "tool"]
        ELSE IF resp.hasText
        THEN LoopHead([seen EXCEPT !.finalResponse = Text("text", r, ReplyTextLen),
                                   !.done = TRUE])
        ELSE LoopHead(seen)

\* for (const tc of toolCalls) { ... step.run(`tool-${tc.name}`) ... }
AfterTool(run) ==
    IF run.toolsLeft > 1
    THEN [run EXCEPT !.toolsLeft = @ - 1]
    ELSE LoopHead([run EXCEPT !.toolsLeft = 0])

\* if (shouldCompact(history)) history = await step.run("compact", ...)
AfterLoadHistorySkipsCompact(run, history) == LoopHead(run)
AfterLoadHistory(run, history) ==
    IF shouldCompact(history)
    THEN [run EXCEPT !.history = history, !.pc = "compact"]
    ELSE LoopHead(run)

StepNames ==
    {"save-incoming", "ensure-workspace", "load-context", "load-history",
     "compact", "think", "tool", "save-response", "reply"}

(***************************************************************************)
(* Actions of Spec.                                                        *)
(***************************************************************************)
\* An agent.message.received event arrives: a run is scheduled for it, and
\* cancelOn cancels the runs of the function it matches, the run the event
\* has just triggered being one of the runs it is matched against. Whether a run still
\* waiting for its concurrency slot is cancelled too is the substrate's choice.
EventArrives(key, mid, len, cancelQueued) ==
    /\ Len(events) < MaxEvents
    /\ LET e == Event(key, mid, len)
           triggered == Append(runs, NewRun)
           hit(r) == /\ cancelOn(Append(events, e)[r], e)
                     /\ \/ triggered[r].status = "running"
                        \/ cancelQueued /\ triggered[r].status = "queued"
       IN  /\ events' = Append(events, e)
           /\ runs' = [r \in DOMAIN triggered |->
                         IF hit(r) THEN Stopped(triggered[r], "cancelled")
                         ELSE triggered[r]]
    /\ UNCHANGED <<session, replies, now, nextSeq, compIn, compOut, compWrote>>
    /\ UNCHANGED <<prunerVars, heartbeatVars, replayVars, agentVars, loadVars, rememberVars, failureVars, replyVars, transformVars, sendVars, cancelVars>>

\* The substrate starts a scheduled run when its concurrency key has a slot.
SlotFreeNoLimit(r) == TRUE
SlotFreeNeverReleased(r) ==
    Cardinality({q \in Runs : runs[q].status # "queued" /\
                   concurrencyKey(events[q]) = concurrencyKey(events[r])})
        < concurrencyLimit
SlotFree(r) ==
    Cardinality({q \in Runs : InFlight(q) /\
                   concurrencyKey(events[q]) = concurrencyKey(events[r])})
        < concurrencyLimit

StartRun(r) ==
    /\ runs[r].status = "queued"
    /\ SlotFree(r)
    /\ runs' = [runs EXCEPT ![r].status = "running", ![r].pc = "save-incoming"]
    /\ UNCHANGED <<events, session, replies, now, nextSeq, compIn, compOut, compWrote>>
    /\ UNCHANGED <<prunerVars, heartbeatVars, replayVars, agentVars, loadVars, rememberVars, failureVars, replyVars, transformVars, sendVars, cancelVars>>

\* The substrate drives a run (hands it steps, resumes it with their outputs)
\* from its start until it is completed, failed or cancelled.
SchedulableOnceStarted(r) == runs[r].status # "queued"
Schedulable(r) == InFlight(r)

\* The substrate hands the run's next step to the worker.
Startable(r) == Schedulable(r) /\ ~runs[r].inStep /\ runs[r].pc \in StepNames

StepStart(r) ==
    /\ Startable(r)
    /\ runs' = [runs EXCEPT ![r].inStep = TRUE,
                            ![r].thinks = IF runs[r].pc = "think" THEN @ + 1 ELSE @,
                            ![r].compactions = IF runs[r].pc = "compact" THEN @ + 1 ELSE @]
    /\ UNCHANGED <<events, session, replies, now, nextSeq, compIn, compOut, compWrote>>
    /\ UNCHANGED <<prunerVars, heartbeatVars, replayVars, agentVars, loadVars, rememberVars, failureVars, replyVars, transformVars, sendVars, cancelVars>>

\* The run as it continues once the step named pc has returned out.
Continue(r, run, out) ==
    LET fin == [run EXCEPT !.inStep = FALSE]
    IN  CASE run.pc = "save-incoming"    -> [fin EXCEPT !.pc = "ensure-workspace"]
          [] run.pc = "ensure-workspace" -> [fin EXCEPT !.pc = "load-context"]
          [] run.pc = "load-context"     -> [fin EXCEPT !.pc = "load-history"]
          [] run.pc = "load-history"     -> AfterLoadHistory(fin, out)
          [] run.pc = "compact"          -> LoopHead([fin EXCEPT !.history = <<>>])
          [] run.pc = "think"            -> AfterThink(r, fin, out)
          [] run.pc = "tool"             -> AfterTool(fin)
          [] run.pc = "save-response"    -> [fin EXCEPT !.pc = "reply"]
          [] run.pc = "reply"            -> Stopped(fin, "completed")

\* The step's output is recorded and the function resumes; a cancelled run
\* does not resume, its output is dropped.
Resume(r, out) ==
    runs' = [runs EXCEPT ![r] = IF Schedulable(r) THEN Continue(r, runs[r], out)
                                ELSE Stopped([runs[r] EXCEPT !.inStep = FALSE],
                                             runs[r].status)]

\* The worker finishes the body of the step in progress.
StepFinish(r) ==
    /\ runs[r].inStep
    /\ LET run == runs[r]
           key == events[r].sessionKey
           file == session[key]
       IN  CASE run.pc = "save-incoming" ->
                  /\ session' = [session EXCEPT ![key] =
                        appendToSession(file, "user",
                            Text("msg", r, events[r].len), now, nextSeq)]
                  /\ nextSeq' = nextSeq + 1
                  /\ Resume(r, <<>>)
                  /\ UNCHANGED <<replies, compIn, compOut, compWrote>>
             [] run.pc = "save-response" ->
                  /\ session' = [session EXCEPT ![key] =
                        appendToSession(file, "assistant", run.finalResponse,
                                        now, nextSeq)]
                  /\ nextSeq' = nextSeq + 1
                  /\ Resume(r, <<>>)
                  /\ UNCHANGED <<replies, compIn, compOut, compWrote>>
             [] run.pc = "load-history" ->
                  /\ Resume(r, buildConversationHistory(file))
                  /\ UNCHANGED <<session, replies, nextSeq, compIn, compOut, compWrote>>
             [] run.pc = "compact" -> \E summaryLen \in SummaryLens :
                  LET res == runCompaction(run.history, summaryLen, now, nextSeq)
                  IN  /\ session' = IF res.wrote
                                    THEN [session EXCEPT ![key] = writeSession(file, res.out)]
                                    ELSE session
                      /\ nextSeq' = IF res.wrote THEN nextSeq + 1 ELSE nextSeq
                      /\ compIn' = run.history
                      /\ compOut' = res.out
                      /\ compWrote' = res.wrote
                      /\ Resume(r, res.out)
                      /\ UNCHANGED replies
             [] run.pc = "think" ->
                  /\ \E resp \in LLMResponses : Resume(r, resp)
                  /\ UNCHANGED <<session, replies, nextSeq, compIn, compOut, compWrote>>
             [] run.pc = "reply" ->
                  /\ replies' = Append(replies, [run |-> r, response |-> run.finalResponse])
                  /\ Resume(r, <<>>)
                  /\ UNCHANGED <<session, nextSeq, compIn, compOut, compWrote>>
             [] run.pc \in {"ensure-workspace", "load-context", "tool"} ->
                  /\ Resume(r, <<>>)
                  /\ UNCHANGED <<session, replies, nextSeq, compIn, compOut, compWrote>>
    /\ UNCHANGED <<events, now>>
    /\ UNCHANGED <<prunerVars, heartbeatVars, replayVars, agentVars, loadVars, rememberVars, failureVars, replyVars, transformVars, sendVars, cancelVars>>

\* throw new Error(`LLM error: ...`): the attempt fails. The substrate runs the
\* function again (retries: 2); the recorded steps replay and it throws again.
Retry(r) ==
    /\ InFlight(r) /\ runs[r].pc = "throw"
    /\ runs[r].attempt < retries
    /\ runs' = [runs EXCEPT ![r].attempt = @ + 1]
    /\ UNCHANGED <<events, session, replies, now, nextSeq, compIn, compOut, compWrote>>
    /\ UNCHANGED <<prunerVars, heartbeatVars, replayVars, agentVars, loadVars, rememberVars, failureVars, replyVars, transformVars, sendVars, cancelVars>>

Fail(r) ==
    /\ InFlight(r) /\ runs[r].pc = "throw"
    /\ runs[r].attempt = retries
    /\ runs' = [runs EXCEPT ![r] = Stopped(runs[r], "failed")]
    /\ UNCHANGED <<events, session, replies, now, nextSeq, compIn, compOut, compWrote>>
    /\ UNCHANGED <<prunerVars, heartbeatVars, replayVars, agentVars, loadVars, rememberVars, failureVars, replyVars, transformVars, sendVars, cancelVars>>

(***************************************************************************)
(* The pruner of src/agent-loop.ts.  A tool-result text is kept by its     *)
(* length and by how it was made: raw, trimmed (cut: the characters        *)
(* trimmed, which the marker spells out) or the placeholder.               *)
(***************************************************************************)
ToolText(kind, len, cut) == [kind |-> kind, len |-> len, cut |-> cut]
Message(role, text) == [role |-> role, text |-> text]

RECURSIVE Digits(_)
Digits(n) == IF n < 10 THEN 1 ELSE 1 + Digits(n \div 10)

\* hardClear.placeholder
Placeholder == ToolText("placeholder", PlaceholderLen, 0)

\* `${head}\n\n... [${n} chars trimmed] ...\n\n${tail}`
SoftTrim(text) ==
    LET head == Min(headChars, text.len)
        tail == Min(tailChars, text.len)
        cut == text.len - headChars - tailChars
        sign == IF cut < 0 THEN 1 ELSE 0
        abs == IF cut < 0 THEN 0 - cut ELSE cut
    IN  ToolText("trimmed", head + TrimMarkerLen + sign + Digits(abs) + tail, cut)

\* block.text.length > PRUNING.softTrim.maxChars
NeedsSoftTrimAboveHeadAndTail(text) == text.len > headChars + tailChars
NeedsSoftTrim(text) == text.len > maxChars

RECURSIVE TotalToolChars(_, _)
TotalToolChars(msgs, upTo) ==
    IF upTo = 0 THEN 0
    ELSE TotalToolChars(msgs, upTo - 1)
         + (IF msgs[upTo].role = "toolResult" THEN msgs[upTo].text.len ELSE 0)

\* if (iterations > PRUNING.keepLastAssistantTurns) pruneOldToolResults(messages)
ShouldPruneFromTurn(iterations) == iterations >= keepLastAssistantTurns
ShouldPrune(iterations) == iterations > keepLastAssistantTurns

pruneOldToolResults(msgs) ==
    LET recentCount == keepLastAssistantTurns * 2
        pruneUpTo == Max(0, Len(msgs) - recentCount)
        useHardClear == TotalToolChars(msgs, pruneUpTo) > hardClearThreshold
    IN  [i \in 1..Len(msgs) |->
            IF i > pruneUpTo \/ msgs[i].role # "toolResult" THEN msgs[i]
            ELSE IF useHardClear THEN Message(msgs[i].role, Placeholder)
            ELSE IF NeedsSoftTrim(msgs[i].text)
                 THEN Message(msgs[i].role, SoftTrim(msgs[i].text))
            ELSE msgs[i]]

(***************************************************************************)
(* The agent-heartbeat function of src/functions/heartbeat.ts.             *)
(***************************************************************************)
\* The last_heartbeat marker of MEMORY.md: <<>> when there is none, <<t>> when
\* it names the instant t.
parseLastHeartbeat(mem) == mem
appendTimestamp(clock) == <<clock>>

\* hoursSinceLast: <<>> for Infinity
hoursSinceLastNeverIsNow(lastHeartbeat, clock) ==
    IF lastHeartbeat = <<>> THEN <<0>> ELSE <<clock - lastHeartbeat[1]>>
hoursSinceLast(lastHeartbeat, clock) ==
    IF lastHeartbeat = <<>> THEN <<>> ELSE <<clock - lastHeartbeat[1]>>

shouldDistillAtThreshold(logSize, hours) ==
    logSize >= LOG_SIZE_THRESHOLD \/ hours = <<>> \/ hours[1] > MAX_HOURS_BETWEEN
shouldDistill(logSize, hours) ==
    logSize > LOG_SIZE_THRESHOLD \/ hours = <<>> \/ hours[1] > MAX_HOURS_BETWEEN

\* getRecentDates(DAYS_TO_REVIEW), and of these the days whose log is not blank
ReviewedLogs(logs) == {a \in LogAges : a < DAYS_TO_REVIEW /\ logs[a] > 0}
\* the daily log files dated before the cutoff
ExpiredLogs(logs) == {a \in LogAges : a > DAYS_TO_KEEP /\ logs[a] > 0}

NoDistillation == [stopReason |-> "none", text |-> ""]
NoHeartbeat ==
    [pc |-> "idle", status |-> "none", checked |-> FALSE, logSize |-> 0,
     hoursSinceLast |-> <<>>, llmCalls |-> 0, memoryWrites |-> 0, deleted |-> 0,
     distilled |-> NoDistillation]

\* What callLLM returns to the distill-memory step, as far as the step looks
\* at it or could: stopReason and text (the text blocks of the result joined;
\* "" when there is none).
Distillations ==
    {[stopReason |-> "stop", text |-> "distilled"],
     [stopReason |-> "stop", text |-> ""],
     [stopReason |-> "error", text |-> ""]}

\* return response.text
UpdatedMemory(response) == response.text

(***************************************************************************)
(* Tools and the sub-agent: src/lib/tools.ts, src/functions/sub-agent.ts   *)
(* and the act / observe part of src/agent-loop.ts.                        *)
(***************************************************************************)
Agents == {"parent", "child"}
ParentKey == "a"
\* `sub-${sessionKey}-${Date.now()}`
SubSessionKey(sessionKey) == "sub-" \o sessionKey

PiToolNames == {"read"}
CustomToolNames == {"remember", "web_fetch"}
TOOLS == PiToolNames \cup CustomToolNames \cup {"delegate_task"}
SUB_AGENT_TOOLS == PiToolNames \cup CustomToolNames

\* A tool call as the LLM emits it: its name, whether its arguments satisfy
\* the tool's schema, and whether the tool's body throws when run on them.
ToolCall(name, argsValid, throws) ==
    [name |-> name, argsValid |-> argsValid, throws |-> throws]

ToolCalls ==
    {ToolCall("read", TRUE, FALSE), ToolCall("read", TRUE, TRUE),
     ToolCall("read", FALSE, FALSE), ToolCall("delegate_task", TRUE, FALSE),
     ToolCall("no_such_tool", TRUE, FALSE)}

\* the tool calls of one assistant turn, at most n of them
ToolCallSeqs(n) == UNION {[1..k -> ToolCalls] : k \in 1..n}

\* options?.tools ?? TOOLS
tools(run) == IF run.isSubAgent THEN SUB_AGENT_TOOLS ELSE TOOLS

\* executeTool: try { piTool.execute / switch (name) } catch { error: true }
executeToolErrorUnset(tc) ==
    IF tc.name \in PiToolNames \cup CustomToolNames
    THEN IF tc.throws THEN [result |-> "Error", error |-> FALSE]
         ELSE [result |-> "output", error |-> FALSE]
    ELSE [result |-> "Unknown tool", error |-> FALSE]
executeTool(tc) ==
    IF tc.name \in PiToolNames \cup CustomToolNames
    THEN IF tc.throws THEN [result |-> "Error", error |-> TRUE]
         ELSE [result |-> "output", error |-> FALSE]
    ELSE [result |-> "Unknown tool", error |-> TRUE]

\* const tool = tools.find(...); if (tool) validateToolArguments(tool, ...):
\* pi-ai's validateToolArguments throws when the arguments fail the schema
ValidationThrows(run, tc) == tc.name \in tools(run) /\ ~tc.argsValid

\* if (tc.name === "delegate_task" && !options?.isSubAgent)
DelegatesWhoeverAsks(run, tc) == tc.name = "delegate_task"
Delegates(run, tc) == tc.name = "delegate_task" /\ ~run.isSubAgent

\* An entry of the messages array; by: the run that pushed it, call: the tool
\* call a toolResult answers (turn: the iteration, n: its place in the turn).
AgentMessage(role, by, text) ==
    [role |-> role, by |-> by, text |-> text, isError |-> FALSE,
     toolName |-> "", turn |-> 0, n |-> 0]

\* messages.push(llmResponse.message): the assistant message that holds the
\* tool calls of the iteration turn
AssistantMessage(by, turn) ==
    [AgentMessage("assistant", by, "toolCalls") EXCEPT !.turn = turn]

\* messages.push({ role: "toolResult", toolCallId, toolName, content, isError })
toolResultMessage(by, tc, turn, n, toolResult) ==
    [role |-> "toolResult", by |-> by, text |-> toolResult.result,
     isError |-> toolResult.error, toolName |-> tc.name, turn |-> turn, n |-> n]

NoResponse == ""
\* { result: subResult?.response || "(Sub-agent returned no response)" }
DelegateResult(subResult) ==
    [result |-> IF subResult.response = NoResponse
                THEN "(Sub-agent returned no response)" ELSE subResult.response,
     error |-> FALSE]

\* What the delegate_task branch adds to the caller's messages once
\* step.invoke has returned the child's RunResult.
ObserveDelegateWithTranscript(by, tc, turn, n, child) ==
    child.messages \o <<toolResultMessage(by, tc, turn, n, DelegateResult(child))>>
ObserveDelegate(by, tc, turn, n, child) ==
    <<toolResultMessage(by, tc, turn, n, DelegateResult(child))>>

NoAgentRun ==
    [status |-> "none", pc |-> "none", isSubAgent |-> FALSE, sessionKey |-> "",
     messages |-> <<>>, pending |-> <<>>, iterations |-> 0, done |-> FALSE,
     response |-> NoResponse, handled |-> <<>>, cause |-> "none",
     hasCompactedThisRun |-> FALSE, thinks |-> 0, overflows |-> 0, errors |-> 0,
     totalToolCalls |-> 0, emitted |-> 0]

\* createAgentLoop(userMessage, sessionKey, options) as it is entered
AgentRun(sessionKey, isSubAgent) ==
    [NoAgentRun EXCEPT !.status = "running", !.pc = "load-history",
                       !.sessionKey = sessionKey, !.isSubAgent = isSubAgent]

\* What the LLM answers in AgentSpec: a final text, tool calls (MaxCalls of
\* them at most over the run), or an error, classified as overflow or not.
AgentResponses(run) ==
    {[stopReason |-> "stop", calls |-> <<>>, isOverflow |-> FALSE]}
    \cup {[stopReason |-> "error", calls |-> <<>>, isOverflow |-> o] : o \in BOOLEAN}
    \cup {[stopReason |-> "toolUse", calls |-> c, isOverflow |-> FALSE] :
              c \in ToolCallSeqs(MaxCalls - Len(run.handled))}

\* the loop head, for a run of AgentSpec
AgentLoopHead(run) ==
    IF ~run.done /\ run.iterations < maxIterations
    THEN [run EXCEPT !.iterations = @ + 1, !.pc = "think"]
    ELSE [run EXCEPT !.pc = "return",
                     !.response = IF run.done THEN @ ELSE "(Reached max iterations)"]

\* An uncaught throw: the run ends failed (a retry replays the recorded
\* steps, and a step that failed fails again).
AgentThrown(run, cause) ==
    [run EXCEPT !.status = "failed", !.pc = "none", !.pending = <<>>, !.cause = cause]

\* The overflow recovery (lines 241-270): all but the last six messages are
\* replaced by one summary message, and the iteration is not counted.
EmergencySummarize(by, messages) ==
    LET keepCount == Min(6, Len(messages))
        toSummarize == SubSeq(messages, 1, Len(messages) - keepCount)
        toKeep == LastN(messages, keepCount)
    IN  IF Len(toSummarize) > 0
        THEN <<AgentMessage("user", by, "summary")>> \o toKeep
        ELSE messages

RecoverFromOverflowCounted(by, run) ==
    [run EXCEPT !.hasCompactedThisRun = TRUE,
                !.messages = EmergencySummarize(by, @)]
RecoverFromOverflow(by, run) ==
    [run EXCEPT !.hasCompactedThisRun = TRUE,
                !.messages = EmergencySummarize(by, @),
                !.iterations = @ - 1]

\* the tool call at the head of the for loop, and the loop once it is done
CurrentCall(run) == Head(run.pending)
\* for (const tc of toolCalls) { totalToolCalls++; ...
CountedWhenExecuted(run) ==
    IF Head(run.pending).name = "delegate_task" THEN run
    ELSE [run EXCEPT !.totalToolCalls = @ + 1]
Counted(run) == [run EXCEPT !.totalToolCalls = @ + 1]
CallIndex(run) == Len(run.handled) + 1
AfterCallResultFirst(run, outcome, pushed) ==
    LET seen == [run EXCEPT !.messages = pushed \o @,
                            !.pending = Tail(@),
                            !.handled = Append(@, [call |-> CurrentCall(run),
                                                    turn |-> run.iterations,
                                                    n |-> CallIndex(run),
                                                    outcome |-> outcome])]
    IN  IF Tail(run.pending) = <<>> THEN AgentLoopHead(seen)
        ELSE [seen EXCEPT !.pc = "act"]
AfterCall(run, outcome, pushed) ==
    LET seen == [run EXCEPT !.messages = @ \o pushed,
                            !.pending = Tail(@),
                            !.handled = Append(@, [call |-> CurrentCall(run),
                                                    turn |-> run.iterations,
                                                    n |-> CallIndex(run),
                                                    outcome |-> outcome])]
    IN  IF Tail(run.pending) = <<>> THEN AgentLoopHead(seen)
        ELSE [seen EXCEPT !.pc = "act"]

(***************************************************************************)
(* Re-execution of the function by the substrate: the function body runs   *)
(* again from its first line, and each step.run it reaches that has a      *)
(* recorded output returns that output without running its body.           *)
(***************************************************************************)
\* the locals as the function body is entered (agent-loop.ts lines 187-191)
Entered == [NewRun EXCEPT !.status = "running", !.pc = "save-incoming"]
ReexecuteKeepingLocals(run) == [run EXCEPT !.pc = "save-incoming"]
Reexecute(run) == Entered

\* totalToolCalls++ for each tool call of the for loop
CountToolCall(run, calls) == IF run.pc = "tool" THEN calls + 1 ELSE calls

\* what a step of the given name can return
StepOutputs(name) == IF name = "think" THEN LLMResponses ELSE {<<>>}

\* RunResult: response, iterations, toolCalls
RunResult(run, calls) ==
    [response |-> run.finalResponse, iterations |-> run.iterations,
     toolCalls |-> calls]

\* the loop has returned its RunResult (the next step is message.ts's save-response)
Returned(run) == run.status = "running" /\ run.pc = "save-response"

(***************************************************************************)
(* The remember tool: appendDailyLog of src/lib/memory.ts, called by runs  *)
(* of different sessions (the concurrency key is the session key, so such  *)
(* runs are in flight together).                                           *)
(***************************************************************************)
Rememberers == {"s1", "s2"}
Note(by, n) == [by |-> by, n |-> n]
NoRemember == [pc |-> "idle", existing |-> <<>>, calls |-> 0, saved |-> {}]

\* existing ? `${existing}\n\n### ${timestamp}\n${entry}` : `# ${d}...${entry}`
DailyLogContent(existing, entry) == Append(existing, entry)

(***************************************************************************)
(* The global failure handler (failureHandler) and the channel registry.   *)
(***************************************************************************)
\* { id: "global-failure-handler", retries: 1, ... }
failureHandlerRetries == 1

\* CHANNELS of channels/index.ts; getChannel(name) is defined for these
CHANNELS == {"telegram", "slack"}
\* the channel of an originating event; "" when the event has none
EventChannels == CHANNELS \cup {"unknown", ""}
\* the destination of an originating event: <<>> when the event has none
Destinations == {<<>>, <<1>>, <<2>>}

\* const handler = channel ? getChannel(channel) : undefined; if (handler)
HasHandlerTelegramOnly(channel) == channel = "telegram"
HasHandler(channel) == channel # "" /\ channel \in CHANNELS

\* The inngest/function.failed event of a failed run: function_id and the
\* event that had triggered the run (its data.channel, data.destination).
FunctionFailed(fn, channel, destination) ==
    [function_id |-> fn, channel |-> channel, destination |-> destination]

\* The inngest/function.failed event of a failed failureHandler run: the
\* event that had triggered that run is ev, itself an inngest/function.failed
\* event, whose data (function_id, error, run_id, event) holds neither
\* channel nor destination.
HandlerFailedWithOrigin(ev) ==
    FunctionFailed("global-failure-handler", ev.channel, ev.destination)
HandlerFailed(ev) == FunctionFailed("global-failure-handler", "", <<>>)

\* handler.sendReply({ response, destination, channelMeta }), as it arrives
Notice(about, ev) ==
    [about |-> about, channel |-> ev.channel, destination |-> ev.destination,
     response |-> "Something went wrong"]

\* const { chatId, ... } = destination throws when there is no destination
SendReplyThrows(ev, delivered) == ev.destination = <<>> \/ ~delivered

(***************************************************************************)
(* send-reply (functions/send-reply.ts) and the sendReply of the channel   *)
(* handlers, which posts the chunks of the response one after the other.   *)
(***************************************************************************)
\* { id: "send-reply", retries: 3, ... }
sendReplyRetries == 3

NoSend == [status |-> "none", chunks |-> 0, attempt |-> 0, chunk |-> 0]

\* What posting a chunk comes to: posted as formatted, posted as plain text
\* after the formatted post was refused, or an error thrown out of sendReply.
PostOutcomes == {"formatted", "plain", "throws"}

\* A step whose body threw is run again from its first line while the
\* function has retries left; otherwise the run has failed.
AfterThrow(run) ==
    IF run.attempt < sendReplyRetries
    THEN [run EXCEPT !.attempt = @ + 1, !.chunk = 1]
    ELSE [run EXCEPT !.status = "failed"]

(***************************************************************************)
(* The webhook transforms: TRANSFORM_SOURCE of channels/slack/transform.ts *)
(* and of channels/telegram/transform.ts.  A payload is kept by what the   *)
(* transforms look at.                                                     *)
(***************************************************************************)
\* text: "absent", "empty" (falsy, as is absent) or "text"
PayloadTexts == {"absent", "empty", "text"}

\* A Slack delivery: evt (isObject: FALSE for a body such as null), its type,
\* whether it has an event and that event's fields; retryNum: the value of the
\* x-slack-retry-num header, 0 when the header is absent.
SlackPayloads ==
    [isObject : BOOLEAN,
     type : {"url_verification", "event_callback", "block_actions"},
     hasEvent : BOOLEAN,
     eventType : {"message", "app_mention", "reaction_added"},
     text : PayloadTexts, subtype : BOOLEAN, bot_id : BOOLEAN,
     retryNum : {0, 1}]

\* A Telegram update: whether it has a message, the message's text and
\* whether the message has a chat.
TelegramPayloads ==
    [isObject : BOOLEAN, hasMessage : BOOLEAN, text : PayloadTexts, hasChat : BOOLEAN]

TransformedEvent(name, channel) == [name |-> name, channel |-> channel]
\* a TypeError raised by a property access on undefined or null
Threw == TransformedEvent("TypeError", "")

\* the body of the try block of the Slack transform
SlackTransformBody(evt) ==
    IF ~evt.isObject THEN Threw
    ELSE IF evt.type = "url_verification"
    THEN TransformedEvent("slack/url.verification", "")
    ELSE IF evt.type # "event_callback" \/ ~evt.hasEvent
    THEN TransformedEvent("slack/event.unsupported", "")
    ELSE IF \/ (evt.eventType # "message" /\ evt.eventType # "app_mention")
            \/ evt.text # "text" \/ evt.subtype \/ evt.bot_id
    THEN TransformedEvent("slack/message.unsupported", "")
    ELSE TransformedEvent("agent.message.received", "slack")

\* the body of the try block of the Telegram transform
TelegramTransformBody(evt) ==
    IF ~evt.isObject THEN Threw
    ELSE IF ~evt.hasMessage \/ evt.text # "text"
    THEN TransformedEvent("telegram/message.unsupported", "")
    ELSE IF ~evt.hasChat THEN Threw
    ELSE TransformedEvent("agent.message.received", "telegram")

\* try { ... } catch (e) { return { name: "<channel>/transform.failed", ... } }
TryCatchRethrows(result, failedName) == result
TryCatch(result, failedName) ==
    IF result = Threw THEN TransformedEvent(failedName, "") ELSE result

slackTransform(evt) == TryCatch(SlackTransformBody(evt), "slack/transform.failed")
telegramTransform(evt) ==
    TryCatch(TelegramTransformBody(evt), "telegram/transform.failed")

NoHook == [channel |-> "", payload |-> <<>>, result |-> TransformedEvent("", "")]

Init ==
    /\ events = <<>>
    /\ runs = <<>>
    /\ session = [k \in SessionKeys |-> <<>>]
    /\ replies = <<>>
    /\ now = 0
    /\ nextSeq = 0
    /\ compIn = <<>>
    /\ compOut = <<>>
    /\ compWrote = FALSE
    /\ prunerMessages = <<>>
    /\ prunedOnce = <<>>
    /\ prunedTwice = <<>>
    /\ prunerIterations = 0
    /\ prunerCalledAt = 0
    /\ hb = NoHeartbeat
    /\ memory = <<>>
    /\ memoryText = ""
    /\ dailyLogs = [a \in LogAges |-> IF a = Today THEN 0 ELSE OldLogSize]
    /\ hbClock = 0
    /\ replay = [run |-> Entered, calls |-> 0, cursor |-> 0, crashes |-> 0]
    /\ memo = <<>>
    /\ straight = [run |-> Entered, calls |-> 0]
    /\ ag = [w \in Agents |-> NoAgentRun]
    /\ files = [k \in {} |-> <<>>]
    /\ invokedBy = {}
    /\ disk = [exists |-> FALSE, lines |-> <<>>]
    /\ dayLog = <<>>
    /\ failed = <<>>
    /\ hook = NoHook
    /\ sending = NoSend
    /\ posted = <<>>
    /\ sendReplyRuns = {}
    /\ fh = <<>>
    /\ notices = <<>>
    /\ rem = [c \in Rememberers |-> NoRemember]
    /\ loaded = [called |-> FALSE, from |-> [exists |-> FALSE, lines |-> <<>>],
                 maxMessages |-> 0, result |-> <<>>]
    /\ cancelled = NoAgentRun

Arrive ==
    \E key \in SessionKeys, mid \in MessageIds, len \in MessageLens, cq \in BOOLEAN :
        EventArrives(key, mid, len, cq)

Progress ==
    \E r \in Runs : StartRun(r) \/ StepStart(r) \/ StepFinish(r) \/ Retry(r) \/ Fail(r)

\* send-reply (functions/send-reply.ts): triggered by an agent.reply.ready
\* event, it hands the response to the handler of the event's channel.
SendReply(i) ==
    /\ i \in DOMAIN replies /\ i \notin sendReplyRuns
    /\ sendReplyRuns' = sendReplyRuns \cup {i}
    /\ UNCHANGED <<loopVars, prunerVars, heartbeatVars, replayVars, agentVars, loadVars, rememberVars, failureVars, transformVars, sendVars, cancelVars>>

Deliver == \E i \in DOMAIN replies : SendReply(i)

Next == Arrive \/ Progress \/ Deliver

Spec == Init /\ [][Next]_vars

\* The substrate keeps scheduling: a run that can start or continue does.
FairSpec == Spec /\ WF_vars(Progress)

(***************************************************************************)
(* Properties of Spec and FairSpec.                                        *)
(***************************************************************************)
RunsOfKey(k) == {r \in Runs : events[r].sessionKey = k}
LastRun == Len(events)
NewEventFor(r) ==
    /\ Len(events') = Len(events) + 1
    /\ events'[Len(events')].sessionKey = events[r].sessionKey
RepliedBy(r) == \E i \in DOMAIN replies : replies[i].run = r
AssistantRecords ==
    [k \in SessionKeys |-> SelectRoles(session[k], {"assistant"})]

\* C1: at every instant at most one agent-handle-message run per sessionKey
\* is executing (started, and not completed, failed or cancelled).
C1_Singleton ==
    \A k \in SessionKeys : Cardinality({r \in RunsOfKey(k) : InFlight(r)}) <= 1

\* a run is executing while another run of the same session waits its turn
C1_Witness ==
    \E r \in Runs, q \in Runs :
        /\ r # q /\ events[r].sessionKey = events[q].sessionKey
        /\ InFlight(r) /\ runs[r].pc = "think"
        /\ runs[q].status = "queued"

\* C2, as claimed: whenever an event for session K arrives while a run for K
\* is in flight, that run is cancelled and a run for the new event is scheduled.
C2_CancelOnAnyEvent ==
    [][\A r \in Runs :
          InFlight(r) /\ NewEventFor(r)
              => /\ runs'[r].status = "cancelled"
                 /\ runs'[Len(events')].status = "queued"]_vars

\* C2, amended: whenever an event for session K arrives while a run for K is
\* in flight and the event's destination.messageId differs from that of the
\* run's own event, the run is cancelled and a run for the new event is
\* scheduled.
C2_CancelOnNewMessage ==
    [][\A r \in Runs :
          (/\ InFlight(r) /\ NewEventFor(r)
           /\ events'[Len(events')].messageId # events[r].messageId)
              => /\ runs'[r].status = "cancelled"
                 /\ runs'[Len(events')].status = "queued"]_vars

\* a run that had saved its incoming message was cancelled, and the run of
\* the newer event is executing
C2_Witness ==
    \E r \in Runs :
        /\ runs[r].status = "cancelled"
        /\ \E i \in DOMAIN session[events[r].sessionKey] :
               session[events[r].sessionKey][i].content = Text("msg", r, events[r].len)
        /\ r < LastRun /\ InFlight(LastRun)
        /\ events[LastRun].messageId # events[r].messageId

\* C27: the event that triggers a run does not cancel that run: a run is
\* scheduled, not cancelled, by the arrival of its own event, and a run is
\* cancelled only by the arrival of a later event whose
\* destination.messageId differs from that of its own event.
C27_NoSelfCancel ==
    [][\A r \in DOMAIN runs' :
          /\ (r \notin Runs) => runs'[r].status = "queued"
          /\ (/\ runs'[r].status = "cancelled"
              /\ (r \in Runs => runs[r].status # "cancelled"))
                => /\ Len(events') = Len(events) + 1
                   /\ r < Len(events')
                   /\ events'[Len(events')].messageId # events'[r].messageId]_vars

\* a run is in flight although a second event of its session carrying its
\* own messageId has arrived
C27_Witness ==
    \E r \in Runs, q \in Runs :
        /\ r < q /\ InFlight(r) /\ runs[r].pc = "think"
        /\ events[q].sessionKey = events[r].sessionKey
        /\ events[q].messageId = events[r].messageId

\* C3, as claimed: once cancelled, a run starts no further substep, appends
\* no assistant record and emits no agent.reply.ready.
C3_CancelledCommitsNothing ==
    [][\A r \in Runs :
          runs[r].status = "cancelled"
              => /\ ~(~runs[r].inStep /\ runs'[r].inStep)
                 /\ runs'[r] # runs[r]
                        => AssistantRecords' = AssistantRecords /\ replies' = replies]_vars

\* C3, amended: once cancelled, a run stays cancelled and starts no further
\* substep; the session and the emitted replies change on its behalf at most
\* once more, when the substep that was in progress at the cancellation
\* completes.
C3_CancelledStartsNothing ==
    [][\A r \in Runs :
          runs[r].status = "cancelled"
              => /\ runs'[r].status = "cancelled"
                 /\ ~(~runs[r].inStep /\ runs'[r].inStep)
                 /\ runs'[r] # runs[r] /\ (session' # session \/ replies' # replies)
                        => runs[r].inStep /\ ~runs'[r].inStep]_vars

\* a run was cancelled, its step in progress has ended, and a later run of
\* the session has completed
C3_Witness ==
    \E r \in Runs, q \in Runs :
        /\ r < q
        /\ runs[r].status = "cancelled" /\ ~runs[r].inStep
        /\ runs[q].status = "completed"

\* C4, as claimed: the run of the last event eventually completes and emits
\* its own agent.reply.ready.
C4_LastRunReplies ==
    (Len(events) = MaxEvents)
        ~> (/\ Len(events) = MaxEvents
            /\ runs[MaxEvents].status = "completed" /\ RepliedBy(MaxEvents))

\* C4, amended: the run of the last event eventually either completes, having
\* emitted its own agent.reply.ready, or fails because a think substep
\* returned an LLM error that is not a first context overflow.
C4_LastRunEnds ==
    (Len(events) = MaxEvents)
        ~> (/\ Len(events) = MaxEvents
            /\ \/ runs[MaxEvents].status = "completed" /\ RepliedBy(MaxEvents)
               \/ runs[MaxEvents].status = "failed")

\* the last run has completed and replied after an earlier one was cancelled
C4_Witness ==
    /\ Len(events) = MaxEvents
    /\ runs[MaxEvents].status = "completed" /\ RepliedBy(MaxEvents)
    /\ \E r \in Runs : r < MaxEvents /\ runs[r].status = "cancelled"

\* C18, as claimed: once the run of the last event has thrown on an LLM error
\* and has a retry left, a retry runs the think substep again.
C18_RetryCallsLLMAgain ==
    (/\ Len(events) = MaxEvents /\ InFlight(MaxEvents)
     /\ runs[MaxEvents].pc = "throw" /\ runs[MaxEvents].attempt < retries)
        ~> (/\ Len(events) = MaxEvents /\ InFlight(MaxEvents)
            /\ runs[MaxEvents].pc = "think" /\ runs[MaxEvents].attempt > 0)

\* the step of run r that is in progress finishes in this transition
StepFinishes(r) == runs[r].inStep /\ ~runs'[r].inStep
SessionOf(r) == session[events[r].sessionKey]
Compacted(file) == \E i \in DOMAIN file : file[i].content.kind = "summary"
UserRecordsOf(r) ==
    {i \in DOMAIN SessionOf(r) :
        /\ SessionOf(r)[i].role = "user"
        /\ SessionOf(r)[i].content = Text("msg", r, events[r].len)}
AssistantRecordsWith(r, response) ==
    {i \in DOMAIN SessionOf(r) :
        SessionOf(r)[i].role = "assistant" /\ SessionOf(r)[i].content = response}
RepliesOf(r) == {i \in DOMAIN replies : replies[i].run = r}

\* C23: the steps of a run change the session and the emitted events in this
\* way only: save-incoming appends one user record (the incoming message),
\* save-response appends one assistant record (RunResult.response), reply
\* emits one agent.reply.ready carrying that response, compact may rewrite
\* the file, and a think or tool step changes neither.  So a completed run
\* whose session was not compacted has left in it exactly one user record of
\* its message and, after it, the assistant record of its response (one only,
\* where the response is the run's own text), and has emitted exactly one
\* agent.reply.ready, with that response; send-reply runs only for events
\* that were emitted.
C23_CompletedRunEffects ==
    /\ [](\A r \in Runs :
            /\ Cardinality(RepliesOf(r)) <= 1
            /\ (runs[r].status = "completed") =>
                  /\ Cardinality(RepliesOf(r)) = 1
                  /\ \A i \in RepliesOf(r) : replies[i].response = runs[r].finalResponse
                  /\ ~Compacted(SessionOf(r)) =>
                        /\ Cardinality(UserRecordsOf(r)) = 1
                        /\ \E i \in UserRecordsOf(r) :
                              \E j \in AssistantRecordsWith(r, runs[r].finalResponse) : i < j
                        /\ (runs[r].finalResponse.kind = "text") =>
                              Cardinality(AssistantRecordsWith(r, runs[r].finalResponse)) = 1)
    /\ [](sendReplyRuns \subseteq DOMAIN replies)
    /\ [][\A r \in Runs : StepFinishes(r) =>
              LET file == SessionOf(r)
                  last == file'[Len(file')]
              IN  CASE runs[r].pc = "save-incoming" ->
                         /\ file' = Append(file, last) /\ replies' = replies
                         /\ last.role = "user"
                         /\ last.content = Text("msg", r, events[r].len)
                    [] runs[r].pc = "save-response" ->
                         /\ file' = Append(file, last) /\ replies' = replies
                         /\ last.role = "assistant"
                         /\ last.content = runs[r].finalResponse
                    [] runs[r].pc = "reply" ->
                         /\ file' = file
                         /\ replies' = Append(replies, [run |-> r,
                                                        response |-> runs[r].finalResponse])
                         /\ Len(replies') \notin sendReplyRuns
                    [] runs[r].pc = "compact" -> replies' = replies
                    [] OTHER -> file' = file /\ replies' = replies]_vars

\* a run has completed after another one of its session, the session not
\* compacted, and send-reply has run for its reply
C23_Witness ==
    \E r \in Runs :
        /\ runs[r].status = "completed" /\ ~Compacted(SessionOf(r))
        /\ Len(SessionOf(r)) > 2
        /\ RepliesOf(r) # {} /\ RepliesOf(r) \subseteq sendReplyRuns

\* C5: a run executes at most maxIterations + 1 think substeps, the extra
\* one only after its single overflow recovery.
C5_ThinkBound ==
    \A r \in Runs :
        runs[r].thinks <= maxIterations + (IF runs[r].hasCompactedThisRun THEN 1 ELSE 0)

\* a run is in its (maxIterations + 1)-th think
C5_Witness ==
    \E r \in Runs : InFlight(r) /\ runs[r].thinks = maxIterations + 1

AppendRecord(key, role, len) ==
    /\ Len(session[key]) < MaxSessionLen
    /\ nextSeq < MaxWrites
    /\ session' = [session EXCEPT ![key] =
                      appendToSession(@, role, Text("msg", nextSeq, len), now, nextSeq)]
    /\ nextSeq' = nextSeq + 1
    /\ UNCHANGED <<events, runs, replies, now, compIn, compOut, compWrote>>
    /\ UNCHANGED <<prunerVars, heartbeatVars, replayVars, agentVars, loadVars, rememberVars, failureVars, replyVars, transformVars, sendVars, cancelVars>>

\* The start of a run of the loop: load-history, then, if shouldCompact(history),
\* the compact step (runCompaction and its writeSession).
Compact(key) == \E summaryLen \in SummaryLens :
    LET history == buildConversationHistory(session[key])
        res == runCompaction(history, summaryLen, now, nextSeq)
    IN  /\ shouldCompact(history)
        /\ session' = IF res.wrote
                      THEN [session EXCEPT ![key] = writeSession(@, res.out)]
                      ELSE session
        /\ nextSeq' = IF res.wrote THEN nextSeq + 1 ELSE nextSeq
        /\ compIn' = history
        /\ compOut' = res.out
        /\ compWrote' = res.wrote
        /\ UNCHANGED <<events, runs, replies, now>>
        /\ UNCHANGED <<prunerVars, heartbeatVars, replayVars, agentVars, loadVars, rememberVars, failureVars, replyVars, transformVars, sendVars, cancelVars>>

CompactSession(key) ==
    /\ nextSeq < MaxWrites
    /\ Compact(key)

\* Time passes.
Tick ==
    /\ now < MaxClock
    /\ now' = now + 1
    /\ UNCHANGED <<events, runs, session, replies, nextSeq, compIn, compOut, compWrote>>
    /\ UNCHANGED <<prunerVars, heartbeatVars, replayVars, agentVars, loadVars, rememberVars, failureVars, replyVars, transformVars, sendVars, cancelVars>>

SessionNext ==
    \/ \E key \in SessionKeys, role \in {"user", "assistant"}, len \in RecordLens :
           AppendRecord(key, role, len)
    \/ \E key \in SessionKeys : CompactSession(key)
    \/ Tick

SessionSpec == Init /\ [][SessionNext]_vars

(***************************************************************************)
(* Properties of SessionSpec.                                              *)
(***************************************************************************)
IsSummary(msg) == msg.role = "user" /\ msg.content.kind = "summary"
Suffix(s, from) == SubSeq(s, from, Len(s))

\* C7: in every session file the records are in insertion order and their
\* timestamps are non-decreasing from the first record to the last.
C7_AppendMonotone ==
    \A k \in SessionKeys :
        \A i \in DOMAIN session[k], j \in DOMAIN session[k] :
            i < j =>
                /\ session[k][i].timestamp <= session[k][j].timestamp
                /\ ~IsSummary(session[k][i]) /\ ~IsSummary(session[k][j])
                     => session[k][i].seq < session[k][j].seq

\* C8: when runCompaction summarizes, its result is one summary user message
\* followed by exactly the input messages from the cut index to the end,
\* unchanged and in order, the cut being where the tail first holds
\* keepRecentTokens; when the cut index is <= 1 it returns its input and the
\* session is not rewritten.
C8_CompactionKeepsTail ==
    compIn # <<>> =>
        LET n == Len(compIn)
            \* 1-based positions p >= 3 (cut index >= 2) whose tail reaches the budget
            cuts == {p \in 3..n : estimateTokens(Suffix(compIn, p)) >= keepRecentTokens}
        IN  IF cuts # {}
            THEN LET p == CHOOSE q \in cuts : \A o \in cuts : o <= q
                 IN  /\ compWrote
                     /\ Len(compOut) = n - p + 2
                     /\ IsSummary(compOut[1])
                     /\ Tail(compOut) = Suffix(compIn, p)
                     /\ \A i \in 2..Len(compOut) : ~IsSummary(compOut[i])
            ELSE /\ ~compWrote
                 /\ compOut = compIn

\* a compaction summarized a head and kept a tail of two records or more
C8_Witness ==
    /\ compWrote /\ Len(compOut) >= 3 /\ Len(compIn) > Len(compOut)
    /\ session["a"] = compOut

\* a compaction found its cut at index <= 1 and left the session alone
C8_WitnessUnchanged ==
    /\ compIn # <<>> /\ ~compWrote /\ compOut = compIn

(***************************************************************************)
(* LongFileSpec: the compact step on a session file that has grown past    *)
(* the maxMessages records buildConversationHistory loads.                 *)
(***************************************************************************)
\* save-incoming and save-response of the turns so far: a user record, then
\* an assistant record, and so on
AppendTurnRecord(key, len) ==
    /\ nextSeq < MaxFileWrites
    /\ session' = [session EXCEPT ![key] =
                      appendToSession(@, IF Len(@) % 2 = 0 THEN "user" ELSE "assistant",
                                      Text("msg", nextSeq, len), now, nextSeq)]
    /\ nextSeq' = nextSeq + 1
    /\ UNCHANGED <<events, runs, replies, now, compIn, compOut, compWrote>>
    /\ UNCHANGED <<prunerVars, heartbeatVars, replayVars, agentVars, loadVars, rememberVars, failureVars, replyVars, transformVars, sendVars, cancelVars>>

\* load-history and the compact step of the next run
CompactLongFile(key) ==
    /\ nextSeq <= MaxFileWrites
    /\ Compact(key)

LongFileNext ==
    \/ \E key \in SessionKeys, len \in LongFileLens : AppendTurnRecord(key, len)
    \/ \E key \in SessionKeys : CompactLongFile(key)

LongFileSpec == Init /\ [][LongFileNext]_vars

Records(s) == {s[i] : i \in DOMAIN s}

\* file has become something other than itself with one record appended
Rewritten(old, new) ==
    /\ new # old
    /\ ~(Len(new) = Len(old) + 1 /\ SubSeq(new, 1, Len(old)) = old)

\* the array returned begins with a summary message whose summary is empty
FailedSummary(out) ==
    out # <<>> /\ IsSummary(out[1]) /\ out[1].content.len = SummaryWrapLen

\* C36: a compaction whose summarization call returns stopReason error or an
\* empty text leaves the session file and the history the run goes on with
\* as they were.
C36_FailedSummaryKeepsSession ==
    [][\A k \in SessionKeys :
          (/\ compIn' # compIn \/ compOut' # compOut \/ Rewritten(session[k], session'[k])
           /\ FailedSummary(compOut'))
              => /\ session'[k] = session[k]
                 /\ compOut' = compIn']_vars

\* C33: every record that is in the session file before runCompaction
\* rewrites it is kept as it was in the rewritten file or was among the
\* messages whose text was given to the summarization call.
C33_CompactionLosesNothing ==
    [][\A k \in SessionKeys :
          Rewritten(session[k], session'[k]) =>
              LET toSummarize == SubSeq(compIn', 1, CutIndex(compIn'))
              IN  Records(session[k]) \subseteq Records(session'[k]) \cup Records(toSummarize)]_vars

(***************************************************************************)
(* LongSessionSpec: runs of handleMessage on a session the earlier turns   *)
(* have filled with records of any size.                                   *)
(***************************************************************************)
\* An earlier turn's save-incoming or save-response: a user record, then an
\* assistant record, and so on, all before the first message of the model.
PriorTurn(key, len) ==
    /\ events = <<>>
    /\ AppendRecord(key, IF Len(session[key]) % 2 = 0 THEN "user" ELSE "assistant", len)

\* The messages that arrive once the session is as the earlier turns left it.
LaterMessage ==
    /\ Len(events) < MaxLaterMessages
    /\ Arrive

LongSessionNext ==
    \/ \E key \in SessionKeys, len \in RecordLens : PriorTurn(key, len)
    \/ LaterMessage
    \/ Progress

LongSessionSpec == Init /\ [][LongSessionNext]_vars

(***************************************************************************)
(* Properties of LongSessionSpec.                                          *)
(***************************************************************************)
BeginsWithSummary(file) == file # <<>> /\ IsSummary(file[1])

\* the worker finishes the body of run r's step of that name
BodyReturns(r, name) ==
    /\ runs[r].inStep /\ runs[r].pc = name
    /\ ~runs'[r].inStep

\* no run has started a second compact step, or one after a think step
CompactsOnce ==
    \A r \in Runs :
        /\ runs[r].compactions <= 1
        /\ runs[r].pc = "compact" => runs[r].thinks = 0

\* What the claim says of a step of a run from load-history to its first
\* think; whenever is whether the compact step rewrites the session file
\* whatever it finds.
CompactionBeforeThink(whenever) ==
    \A r \in Runs :
            LET key == events[r].sessionKey
            IN  /\ (BodyReturns(r, "load-history") /\ InFlight(r)) =>
                      LET history == buildConversationHistory(session[key])
                      IN  IF shouldCompact(history)
                          THEN /\ runs'[r].pc = "compact"
                               /\ runs'[r].history = history
                               /\ runs'[r].thinks = 0
                          ELSE runs'[r].pc = "think"
                /\ BodyReturns(r, "compact") =>
                      /\ InFlight(r) => /\ runs'[r].pc = "think"
                                        /\ runs'[r].thinks = 0
                      /\ IF whenever \/ CutIndex(runs[r].history) > 1
                         THEN /\ BeginsWithSummary(session'[key])
                              /\ Suffix(session'[key], 2)
                                    = ToKeep(runs[r].history, CutIndex(runs[r].history))
                         ELSE session'[key] = session[key]
                /\ Rewritten(session[key], session'[key]) =>
                      \E q \in Runs : /\ events[q].sessionKey = key
                                       /\ BodyReturns(q, "compact")

\* C28, as claimed: when shouldCompact holds for the loaded history, the
\* compact step, with its rewrite of the session file to a form that begins
\* with the summary message, is over before the run's first think step, and
\* a run compacts the persisted session at most once.
C28_CompactionBeforeThink ==
    []CompactsOnce /\ [][CompactionBeforeThink(TRUE)]_vars

\* C28, amended: when shouldCompact holds for the loaded history, the compact
\* step is over before the run's first think step and runs at most once in a
\* run; it rewrites the session file, to the summary message followed by the
\* messages kept, when its cut index is greater than 1, and leaves the file
\* as it is otherwise; nothing else rewrites the session file.
C28_CompactionBeforeThinkWhenCut ==
    []CompactsOnce /\ [][CompactionBeforeThink(FALSE)]_vars

\* a run has thought after its compact step rewrote the session file
C28_Witness ==
    \E r \in Runs :
        /\ runs[r].compactions = 1 /\ runs[r].thinks >= 1
        /\ compWrote /\ BeginsWithSummary(session[events[r].sessionKey])

\* a run has thought after its compact step left the session file alone
C28_WitnessNoCut ==
    \E r \in Runs :
        /\ runs[r].compactions = 1 /\ runs[r].thinks >= 1
        /\ ~compWrote /\ ~BeginsWithSummary(session[events[r].sessionKey])

(***************************************************************************)
(* PruneSpec: the pruner applied to the message arrays the loop can build. *)
(***************************************************************************)
\* messages.push(...) of an assistant turn or of a tool result
PushMessage(role, len) ==
    /\ Len(prunerMessages) < MaxMessages
    /\ prunerMessages' = Append(prunerMessages, Message(role, ToolText("raw", len, 0)))
    /\ UNCHANGED <<prunedOnce, prunedTwice, prunerIterations, prunerCalledAt>>
    /\ UNCHANGED <<loopVars, heartbeatVars, replayVars, agentVars, loadVars, rememberVars, failureVars, replyVars, transformVars, sendVars, cancelVars>>

\* pruneOldToolResults(messages), which edits the array in place; and what one
\* more call would make of it
ApplyPruner ==
    /\ prunerMessages' = pruneOldToolResults(prunerMessages)
    /\ prunedOnce' = pruneOldToolResults(prunerMessages)
    /\ prunedTwice' = pruneOldToolResults(pruneOldToolResults(prunerMessages))
    /\ UNCHANGED <<prunerIterations, prunerCalledAt>>
    /\ UNCHANGED <<loopVars, heartbeatVars, replayVars, agentVars, loadVars, rememberVars, failureVars, replyVars, transformVars, sendVars, cancelVars>>

PruneNext ==
    \/ \E len \in ToolTextLens : PushMessage("toolResult", len)
    \/ PushMessage("assistant", ReplyTextLen)
    \/ ApplyPruner

PruneSpec == Init /\ [][PruneNext]_vars

\* C9: applying pruneOldToolResults twice in succession to a message array
\* leaves the same array contents as applying it once.
C9_PrunerIdempotent == prunedTwice = prunedOnce

\* the pruner trimmed an old tool result while a later one stayed whole
C9_Witness ==
    /\ \E i \in DOMAIN prunedOnce : prunedOnce[i].text.kind = "trimmed"
    /\ \E i \in DOMAIN prunedOnce :
           prunedOnce[i].role = "toolResult" /\ prunedOnce[i].text.kind = "raw"
                /\ prunedOnce[i].text.len > maxChars

\* the pruner cleared the old tool results
C9_WitnessHardClear ==
    \E i \in DOMAIN prunedOnce : prunedOnce[i].text.kind = "placeholder"

(***************************************************************************)
(* PruneLoopSpec: the iterations of the loop as far as the messages array  *)
(* goes: the pruner's call at the head of an iteration, and the pushes of  *)
(* the iteration's tool calls.                                             *)
(***************************************************************************)
\* const messages = [...history.map(...), { role: "user", content: userMessage }]
BuildMessages(withHistory) ==
    /\ prunerMessages = <<>> /\ prunerIterations = 0
    /\ prunerMessages' =
          (IF withHistory
           THEN <<Message("user", ToolText("raw", ReplyTextLen, 0)),
                  Message("assistant", ToolText("raw", ReplyTextLen, 0))>>
           ELSE <<>>) \o <<Message("user", ToolText("raw", ReplyTextLen, 0))>>
    /\ UNCHANGED <<prunedOnce, prunedTwice, prunerIterations, prunerCalledAt>>
    /\ UNCHANGED <<loopVars, heartbeatVars, replayVars, agentVars, loadVars, rememberVars, failureVars, replyVars, transformVars, sendVars, cancelVars>>

\* The messages pushed by an iteration whose response holds these tool calls:
\* the assistant message, then one toolResult per call.
TurnMessages(lens) ==
    IF lens = <<>> THEN <<>>
    ELSE <<Message("assistant", ToolText("raw", ReplyTextLen, 0))>>
         \o [i \in DOMAIN lens |-> Message("toolResult", ToolText("raw", lens[i], 0))]

\* One iteration of the while loop: iterations++, the pruner's call behind
\* its guard, think, and the pushes of the tool calls made (lens: the lengths
\* of their results).
Iterate(lens) ==
    /\ prunerMessages # <<>>
    /\ prunerIterations < MaxPruneIterations
    /\ Len(prunerMessages) + Len(TurnMessages(lens)) <= MaxLoopMessages
    /\ prunerIterations' = prunerIterations + 1
    /\ IF ShouldPrune(prunerIterations + 1)
       THEN /\ prunedOnce' = pruneOldToolResults(prunerMessages)
            /\ prunedTwice' = pruneOldToolResults(pruneOldToolResults(prunerMessages))
            /\ prunerCalledAt' = prunerIterations + 1
            /\ prunerMessages' = pruneOldToolResults(prunerMessages) \o TurnMessages(lens)
       ELSE /\ prunerMessages' = prunerMessages \o TurnMessages(lens)
            /\ UNCHANGED <<prunedOnce, prunedTwice, prunerCalledAt>>
    /\ UNCHANGED <<loopVars, heartbeatVars, replayVars, agentVars, loadVars, rememberVars, failureVars, replyVars, transformVars, sendVars, cancelVars>>

ToolCallLens == UNION {[1..k -> ToolTextLens] : k \in 0..MaxToolCalls}

PruneLoopNext ==
    \/ \E withHistory \in BOOLEAN : BuildMessages(withHistory)
    \/ \E lens \in ToolCallLens : Iterate(lens)

PruneLoopSpec == Init /\ [][PruneLoopNext]_vars

\* C30: pruneOldToolResults is called only in iterations greater than
\* keepLastAssistantTurns; a call leaves the messages array with its length
\* and the role of every message, leaves every user and assistant message and
\* each of the last 2 x keepLastAssistantTurns messages as it was, and what it
\* changes is the text of toolResult messages before those.
C30_PrunerFrame ==
    /\ [](prunerCalledAt = 0 \/ prunerCalledAt > keepLastAssistantTurns)
    /\ [][prunerCalledAt' # prunerCalledAt =>
            LET before == prunerMessages
                after == prunedOnce'
                n == Len(before)
            IN  /\ prunerCalledAt' = prunerIterations'
                /\ SubSeq(prunerMessages', 1, n) = after
                /\ Len(after) = n
                /\ \A i \in 1..n :
                      /\ after[i].role = before[i].role
                      /\ before[i].role \in {"user", "assistant"} => after[i] = before[i]
                      /\ i > n - 2 * keepLastAssistantTurns => after[i] = before[i]
                      /\ after[i] # before[i] =>
                            /\ before[i].role = "toolResult"
                            /\ i <= n - 2 * keepLastAssistantTurns]_vars

\* a call of the pruner in the loop changed an old tool result and left a
\* tool result among the last 2 x keepLastAssistantTurns messages whole
C30_Witness ==
    /\ prunerCalledAt > keepLastAssistantTurns
    /\ \E i \in DOMAIN prunedOnce : prunedOnce[i].text.kind \in {"trimmed", "placeholder"}
    /\ \E i \in DOMAIN prunedOnce :
          /\ i > Len(prunedOnce) - 2 * keepLastAssistantTurns
          /\ prunedOnce[i].role = "toolResult" /\ prunedOnce[i].text.len > maxChars

(***************************************************************************)
(* HeartbeatSpec: the agent-heartbeat function, one run at a time, while   *)
(* the agent appends to today's daily log and time passes.                 *)
(***************************************************************************)
\* { cron: HEARTBEAT_CRON }
CronFires ==
    /\ hb.pc = "idle"
    /\ hb' = [NoHeartbeat EXCEPT !.pc = "check-if-needed", !.status = "running"]
    /\ UNCHANGED <<memory, memoryText, dailyLogs, hbClock>>
    /\ UNCHANGED <<loopVars, prunerVars, replayVars, agentVars, loadVars, rememberVars, failureVars, replyVars, transformVars, sendVars, cancelVars>>

\* step "check-if-needed", and the early exit after it
CheckIfNeeded ==
    /\ hb.pc = "check-if-needed"
    /\ LET lastHeartbeat == parseLastHeartbeat(memory)
           logSize == dailyLogs[Today]
           hours == hoursSinceLast(lastHeartbeat, hbClock)
       IN  hb' = [hb EXCEPT !.checked = TRUE,
                            !.logSize = logSize,
                            !.hoursSinceLast = hours,
                            !.pc = IF shouldDistill(logSize, hours)
                                   THEN "load-memory-context" ELSE "idle",
                            !.status = IF shouldDistill(logSize, hours)
                                       THEN "running" ELSE "skipped"]
    /\ UNCHANGED <<memory, memoryText, dailyLogs, hbClock>>
    /\ UNCHANGED <<loopVars, prunerVars, replayVars, agentVars, loadVars, rememberVars, failureVars, replyVars, transformVars, sendVars, cancelVars>>

\* step "load-memory-context", and the exit when no daily log was found
LoadMemoryContext ==
    /\ hb.pc = "load-memory-context"
    /\ hb' = IF ReviewedLogs(dailyLogs) = {}
             THEN [hb EXCEPT !.pc = "idle", !.status = "skipped"]
             ELSE [hb EXCEPT !.pc = "distill-memory"]
    /\ UNCHANGED <<memory, memoryText, dailyLogs, hbClock>>
    /\ UNCHANGED <<loopVars, prunerVars, replayVars, agentVars, loadVars, rememberVars, failureVars, replyVars, transformVars, sendVars, cancelVars>>

\* step "distill-memory": callLLM
DistillMemory ==
    /\ hb.pc = "distill-memory"
    /\ \E response \in Distillations :
          hb' = [hb EXCEPT !.pc = "write-memory", !.llmCalls = @ + 1,
                           !.distilled = response]
    /\ UNCHANGED <<memory, memoryText, dailyLogs, hbClock>>
    /\ UNCHANGED <<loopVars, prunerVars, replayVars, agentVars, loadVars, rememberVars, failureVars, replyVars, transformVars, sendVars, cancelVars>>

\* step "write-memory": writeMemory(appendTimestamp(updatedMemory))
WriteMemory ==
    /\ hb.pc = "write-memory"
    /\ memory' = appendTimestamp(hbClock)
    /\ memoryText' = UpdatedMemory(hb.distilled)
    /\ hb' = [hb EXCEPT !.pc = "prune-old-logs", !.memoryWrites = @ + 1]
    /\ UNCHANGED <<dailyLogs, hbClock>>
    /\ UNCHANGED <<loopVars, prunerVars, replayVars, agentVars, loadVars, rememberVars, failureVars, replyVars, transformVars, sendVars, cancelVars>>

\* step "prune-old-logs", and the return of status "distilled"
PruneOldLogs ==
    /\ hb.pc = "prune-old-logs"
    /\ dailyLogs' = [a \in LogAges |->
                        IF a \in ExpiredLogs(dailyLogs) THEN 0 ELSE dailyLogs[a]]
    /\ hb' = [hb EXCEPT !.pc = "idle", !.status = "distilled",
                        !.deleted = Cardinality(ExpiredLogs(dailyLogs))]
    /\ UNCHANGED <<memory, memoryText, hbClock>>
    /\ UNCHANGED <<loopVars, prunerVars, replayVars, agentVars, loadVars, rememberVars, failureVars, replyVars, transformVars, sendVars, cancelVars>>

\* appendDailyLog(entry): today's log grows
AppendDailyLog(size) ==
    /\ size > dailyLogs[Today]
    /\ dailyLogs' = [dailyLogs EXCEPT ![Today] = size]
    /\ UNCHANGED <<hb, memory, memoryText, hbClock>>
    /\ UNCHANGED <<loopVars, prunerVars, replayVars, agentVars, loadVars, rememberVars, failureVars, replyVars, transformVars, sendVars, cancelVars>>

\* Time passes.
HoursPass(h) ==
    /\ hbClock + h <= MaxHours
    /\ hbClock' = hbClock + h
    /\ UNCHANGED <<hb, memory, memoryText, dailyLogs>>
    /\ UNCHANGED <<loopVars, prunerVars, replayVars, agentVars, loadVars, rememberVars, failureVars, replyVars, transformVars, sendVars, cancelVars>>

HeartbeatNext ==
    \/ CronFires
    \/ CheckIfNeeded
    \/ LoadMemoryContext
    \/ DistillMemory
    \/ WriteMemory
    \/ PruneOldLogs
    \/ \E size \in LogSizes : AppendDailyLog(size)
    \/ \E h \in HourSteps : HoursPass(h)

HeartbeatSpec == Init /\ [][HeartbeatNext]_vars

\* C10: a heartbeat run that found today's daily log at most
\* LOG_SIZE_THRESHOLD bytes and the last_heartbeat marker at most
\* MAX_HOURS_BETWEEN hours old has completed with status skipped, without
\* calling the LLM, writing MEMORY.md or deleting a daily log.
C10_HeartbeatSkips ==
    ( /\ hb.checked
      /\ hb.logSize <= LOG_SIZE_THRESHOLD
      /\ hb.hoursSinceLast # <<>>
      /\ hb.hoursSinceLast[1] <= MAX_HOURS_BETWEEN )
    => /\ hb.status = "skipped"
       /\ hb.pc = "idle"
       /\ hb.llmCalls = 0
       /\ hb.memoryWrites = 0
       /\ hb.deleted = 0

\* a run skipped with both measures at their limits
C10_Witness ==
    /\ hb.checked /\ hb.status = "skipped"
    /\ hb.logSize = LOG_SIZE_THRESHOLD
    /\ hb.hoursSinceLast = <<MAX_HOURS_BETWEEN>>

\* a heartbeat run is over
HeartbeatOver == hb.checked /\ hb.pc = "idle"

C35_FailedDistillKeepsMemory ==
    [][(hb.distilled.stopReason = "error" \/ hb.distilled.text = "")
          => memoryText' = memoryText]_vars

(***************************************************************************)
(* ReplaySpec: one run of the loop whose execution is lost between steps   *)
(* and started again by the substrate, next to an execution that is given  *)
(* the same step outputs and is never interrupted.                         *)
(***************************************************************************)
\* A step whose output is recorded: step.run returns the recorded output.
ReplayStep ==
    /\ replay.run.status = "running" /\ replay.run.pc \in StepNames
    /\ replay.cursor < Len(memo)
    /\ LET out == memo[replay.cursor + 1].out
       IN  replay' = [replay EXCEPT !.run = Continue(1, replay.run, out),
                                    !.calls = CountToolCall(replay.run, @),
                                    !.cursor = @ + 1]
    /\ UNCHANGED <<memo, straight>>
    /\ UNCHANGED <<loopVars, prunerVars, heartbeatVars, agentVars, loadVars, rememberVars, failureVars, replyVars, transformVars, sendVars, cancelVars>>

\* A step that has no recorded output yet: its body runs, its output is
\* recorded, and the function goes on with it.
FreshStep ==
    /\ replay.run.status = "running" /\ replay.run.pc \in StepNames
    /\ replay.cursor = Len(memo)
    /\ Len(memo) < MaxMemo
    /\ \E out \in StepOutputs(replay.run.pc) :
          /\ memo' = Append(memo, [name |-> replay.run.pc, out |-> out])
          /\ replay' = [replay EXCEPT !.run = Continue(1, replay.run, out),
                                      !.calls = CountToolCall(replay.run, @),
                                      !.cursor = @ + 1]
          /\ straight' = [run |-> Continue(1, straight.run, out),
                          calls |-> CountToolCall(straight.run, straight.calls)]
    /\ UNCHANGED <<loopVars, prunerVars, heartbeatVars, agentVars, loadVars, rememberVars, failureVars, replyVars, transformVars, sendVars, cancelVars>>

\* The execution is lost between two steps (or has thrown); the substrate
\* runs the function again.
Crash ==
    /\ replay.run.status = "running"
    /\ replay.crashes < MaxCrashes
    /\ replay' = [replay EXCEPT !.run = Reexecute(replay.run), !.calls = 0,
                                !.cursor = 0, !.crashes = @ + 1]
    /\ UNCHANGED <<memo, straight>>
    /\ UNCHANGED <<loopVars, prunerVars, heartbeatVars, agentVars, loadVars, rememberVars, failureVars, replyVars, transformVars, sendVars, cancelVars>>

ReplayNext == ReplayStep \/ FreshStep \/ Crash

ReplaySpec == Init /\ [][ReplayNext]_vars

ReadFile(key) == IF key \in DOMAIN files THEN files[key] ELSE <<>>
WriteFile(key, records) ==
    [k \in DOMAIN files \cup {key} |-> IF k = key THEN records ELSE files[k]]

\* event.data.message of the message AgentSpec handles, and the content of a
\* history entry as the messages array holds it (h.content): the incoming
\* message's own text, or an earlier one
IncomingText == Text("msg", 1, 4)
HistoryContent(content) == IF content = IncomingText THEN "userMessage" ELSE "history"

\* handleMessage is triggered, the session file holding prior records of
\* earlier messages: step "save-incoming", then the loop is entered
Receive(prior) ==
    /\ ag["parent"].status = "none"
    /\ LET file == [i \in 1..prior |->
                       SessionMessage(IF i % 2 = 1 THEN "user" ELSE "assistant",
                                      Text("msg", 0, 4), 0, i - 1)]
       IN  files' = WriteFile(ParentKey,
                        appendToSession(file, "user", IncomingText, 0, prior))
    /\ ag' = [ag EXCEPT !["parent"] = AgentRun(ParentKey, FALSE)]
    /\ UNCHANGED invokedBy
    /\ UNCHANGED <<loopVars, prunerVars, heartbeatVars, replayVars, loadVars, rememberVars, failureVars, replyVars, transformVars, sendVars, cancelVars>>

\* steps "ensure-workspace", "load-context", "load-history"; the messages
\* array is built from the history and the user message
LoadHistory(w) ==
    /\ ag[w].status = "running" /\ ag[w].pc = "load-history"
    /\ LET history == buildConversationHistory(ReadFile(ag[w].sessionKey))
           messages == [i \in 1..Len(history) |->
                            AgentMessage(history[i].role, w,
                                         HistoryContent(history[i].content))]
                       \o <<AgentMessage("user", w, "userMessage")>>
       IN  ag' = [ag EXCEPT ![w] = AgentLoopHead([@ EXCEPT !.messages = messages])]
    /\ UNCHANGED <<files, invokedBy>>
    /\ UNCHANGED <<loopVars, prunerVars, heartbeatVars, replayVars, loadVars, rememberVars, failureVars, replyVars, transformVars, sendVars, cancelVars>>

\* step "think" and what the loop makes of the response, which is one of
\* responses
ThinkAnswered(w, responses) ==
    /\ ag[w].status = "running" /\ ag[w].pc = "think"
    /\ \E resp \in responses :
          LET run == [ag[w] EXCEPT
                         !.thinks = @ + 1,
                         !.emitted = @ + Len(resp.calls),
                         !.overflows = IF resp.stopReason = "error" /\ resp.isOverflow
                                       THEN @ + 1 ELSE @,
                         !.errors = IF resp.stopReason = "error" /\ ~resp.isOverflow
                                    THEN @ + 1 ELSE @]
          IN  ag' = [ag EXCEPT ![w] =
                    IF resp.stopReason = "error"
                    THEN IF OverflowRecovery(run, resp)
                         THEN AgentLoopHead(RecoverFromOverflow(w, run))
                         ELSE AgentThrown(run, "llm")
                    ELSE IF Len(resp.calls) > 0
                    THEN [run EXCEPT !.messages = Append(@, AssistantMessage(w, run.iterations)),
                                     !.pending = resp.calls, !.pc = "act"]
                    ELSE AgentLoopHead([run EXCEPT !.response = "reply of " \o w,
                                                   !.done = TRUE])]
    /\ UNCHANGED <<files, invokedBy>>
    /\ UNCHANGED <<loopVars, prunerVars, heartbeatVars, replayVars, loadVars, rememberVars, failureVars, replyVars, transformVars, sendVars, cancelVars>>

Think(w) == ThinkAnswered(w, AgentResponses(ag[w]))

\* step `tool-${tc.name}`: validateToolArguments, executeTool, and the observe
\* push; a validation error is thrown out of the step
ToolStep(w) ==
    /\ ag[w].status = "running" /\ ag[w].pc = "act"
    /\ ~Delegates(ag[w], CurrentCall(ag[w]))
    /\ LET run == Counted(ag[w])
           tc == CurrentCall(run)
       IN  ag' = [ag EXCEPT ![w] =
                    IF ValidationThrows(run, tc)
                    THEN AgentThrown([run EXCEPT
                             !.handled = Append(@, [call |-> tc, turn |-> run.iterations,
                                                    n |-> CallIndex(run),
                                                    outcome |-> "threw"])],
                                     "validation")
                    ELSE AfterCall(run, "result",
                             <<toolResultMessage(w, tc, run.iterations, CallIndex(run),
                                                 executeTool(tc))>>)]
    /\ UNCHANGED <<files, invokedBy>>
    /\ UNCHANGED <<loopVars, prunerVars, heartbeatVars, replayVars, loadVars, rememberVars, failureVars, replyVars, transformVars, sendVars, cancelVars>>

\* step.invoke("sub-agent", ...): the sub-agent function is started with
\* subSessionKey, and the caller waits for it
Invoke(w) ==
    /\ ag[w].status = "running" /\ ag[w].pc = "act"
    /\ Delegates(ag[w], CurrentCall(ag[w]))
    /\ ag' = [ag EXCEPT ![w] = [Counted(@) EXCEPT !.pc = "invoke"],
                        !["child"] = IF w = "child" THEN [@ EXCEPT !.pc = "invoke"]
                                     ELSE AgentRun(SubSessionKey(ag[w].sessionKey), TRUE)]
    /\ invokedBy' = invokedBy \cup {w}
    /\ UNCHANGED files
    /\ UNCHANGED <<loopVars, prunerVars, heartbeatVars, replayVars, loadVars, rememberVars, failureVars, replyVars, transformVars, sendVars, cancelVars>>

\* the sub-agent function returns its loop's RunResult
ChildReturns ==
    /\ ag["child"].status = "running" /\ ag["child"].pc = "return"
    /\ ag' = [ag EXCEPT !["child"].status = "completed", !["child"].pc = "none"]
    /\ UNCHANGED <<files, invokedBy>>
    /\ UNCHANGED <<loopVars, prunerVars, heartbeatVars, replayVars, loadVars, rememberVars, failureVars, replyVars, transformVars, sendVars, cancelVars>>

\* step.invoke returns subResult to the caller; the invoked run is over
InvokeReturns ==
    /\ ag["parent"].status = "running" /\ ag["parent"].pc = "invoke"
    /\ ag["child"].status = "completed"
    /\ LET run == ag["parent"]
       IN  ag' = [ag EXCEPT !["parent"] =
                    AfterCall(run, "result",
                        ObserveDelegate("parent", CurrentCall(run), run.iterations,
                                        CallIndex(run), ag["child"])),
                             !["child"] = NoAgentRun]
    /\ UNCHANGED <<files, invokedBy>>
    /\ UNCHANGED <<loopVars, prunerVars, heartbeatVars, replayVars, loadVars, rememberVars, failureVars, replyVars, transformVars, sendVars, cancelVars>>

\* the invoked function failed: step.invoke throws in the caller; the
\* invoked run is over
InvokeFails ==
    /\ ag["parent"].status = "running" /\ ag["parent"].pc = "invoke"
    /\ ag["child"].status = "failed"
    /\ LET run == ag["parent"]
       IN  ag' = [ag EXCEPT !["parent"] =
                    AgentThrown([run EXCEPT
                        !.handled = Append(@, [call |-> CurrentCall(run),
                                               turn |-> run.iterations,
                                               n |-> CallIndex(run),
                                               outcome |-> "threw"])],
                                "child"),
                             !["child"] = NoAgentRun]
    /\ UNCHANGED <<files, invokedBy>>
    /\ UNCHANGED <<loopVars, prunerVars, heartbeatVars, replayVars, loadVars, rememberVars, failureVars, replyVars, transformVars, sendVars, cancelVars>>

\* the loop has returned to handleMessage: step "save-response"
SaveResponse ==
    /\ ag["parent"].status = "running" /\ ag["parent"].pc = "return"
    /\ files' = WriteFile(ParentKey,
                    appendToSession(ReadFile(ParentKey), "assistant",
                                    Text("text", 1, ReplyTextLen), 0,
                                    Len(ReadFile(ParentKey))))
    /\ ag' = [ag EXCEPT !["parent"].status = "completed", !["parent"].pc = "none"]
    /\ UNCHANGED invokedBy
    /\ UNCHANGED <<loopVars, prunerVars, heartbeatVars, replayVars, loadVars, rememberVars, failureVars, replyVars, transformVars, sendVars, cancelVars>>

AgentNext ==
    \/ \E prior \in PriorRecords : Receive(prior)
    \/ \E w \in Agents : LoadHistory(w) \/ Think(w) \/ ToolStep(w) \/ Invoke(w)
    \/ ChildReturns
    \/ InvokeReturns
    \/ InvokeFails
    \/ SaveResponse

AgentSpec == Init /\ [][AgentNext]_vars

(***************************************************************************)
(* Properties of AgentSpec.                                                *)
(***************************************************************************)
ParentFile == ReadFile(ParentKey)
\* the toolResult messages of run answering its call number n of the given turn
ResultsFor(run, turn, n) ==
    {i \in DOMAIN run.messages :
        /\ run.messages[i].role = "toolResult"
        /\ run.messages[i].turn = turn /\ run.messages[i].n = n}
\* the calls of run w that went to a tool step (not to the sub-agent)
ToolStepCalls(w) ==
    {j \in DOMAIN ag[w].handled :
        ag[w].handled[j].call.name # "delegate_task" \/ ag[w].isSubAgent}

\* C12: from the moment the parent invokes the sub-agent until step.invoke
\* returns, the parent's message array and session file do not change; when it
\* returns, the array gains exactly one toolResult for the delegate_task call,
\* whose text is the child's response (the placeholder when that is empty).
C12_SummaryOnly ==
    [][ag["parent"].pc = "invoke" =>
          LET p == ag["parent"]
              before == p.messages
              after == ag'["parent"].messages
          IN  /\ ParentFile' = ParentFile
              /\ \A i \in DOMAIN after : after[i].by = "parent"
              /\ IF ag'["parent"].pc = "invoke" \/ ag["child"].status # "completed"
                 THEN after = before
                 ELSE /\ Len(after) = Len(before) + 1
                      /\ SubSeq(after, 1, Len(before)) = before
                      /\ after[Len(after)].role = "toolResult"
                      /\ after[Len(after)].toolName = "delegate_task"
                      /\ after[Len(after)].turn = p.iterations
                      /\ after[Len(after)].n = CallIndex(p)
                      /\ after[Len(after)].text =
                            IF ag["child"].response = NoResponse
                            THEN "(Sub-agent returned no response)"
                            ELSE ag["child"].response]_vars

\* the parent holds the reply of a sub-agent as the result of delegate_task
C12_Witness ==
    \E i \in DOMAIN ag["parent"].messages :
        /\ ag["parent"].messages[i].toolName = "delegate_task"
        /\ ag["parent"].messages[i].text = "reply of child"

\* C26: the tool calls of an assistant turn are handled one at a time, in
\* the order in which the model emitted them, each result appended before the
\* next call is taken up: the messages hold, after the assistant message of
\* the turn, one toolResult per call handled, in that order, each with the
\* id (turn and place) and the name of its call.
C26_ToolCallsInOrder ==
    /\ [](\A w \in Agents :
            LET run == ag[w]
            IN  /\ \A j \in DOMAIN run.handled :
                      /\ run.handled[j].n = j
                      /\ (run.handled[j].outcome = "result")
                            => Cardinality(ResultsFor(run, run.handled[j].turn, j)) = 1
                      /\ (j > 1) => run.handled[j - 1].turn <= run.handled[j].turn
                /\ \A i \in DOMAIN run.messages :
                      (run.messages[i].role = "toolResult") =>
                          LET n == run.messages[i].n
                          IN  /\ n \in DOMAIN run.handled
                              /\ run.handled[n].turn = run.messages[i].turn
                              /\ run.handled[n].call.name = run.messages[i].toolName
                              /\ i > 1
                              /\ IF n > 1 /\ run.handled[n - 1].turn = run.handled[n].turn
                                 THEN /\ run.messages[i - 1].role = "toolResult"
                                      /\ run.messages[i - 1].n = n - 1
                                 ELSE run.messages[i - 1].role = "assistant")
    /\ [][\A w \in Agents :
              (/\ ag[w].status = "running" /\ ag'[w].status # "none"
               /\ Len(ag'[w].handled) # Len(ag[w].handled)) =>
                  LET k == Len(ag'[w].handled)
                  IN  /\ k = Len(ag[w].handled) + 1
                      /\ ag[w].pending # <<>>
                      /\ ag'[w].handled[k].call = Head(ag[w].pending)
                      /\ ag'[w].handled[k].turn = ag[w].iterations
                      /\ (ag'[w].handled[k].outcome = "result") =>
                            /\ Len(ag'[w].messages) = Len(ag[w].messages) + 1
                            /\ SubSeq(ag'[w].messages, 1, Len(ag[w].messages))
                                  = ag[w].messages
                            /\ ag'[w].messages[Len(ag'[w].messages)].n = k
                            /\ (ag'[w].pending = Tail(ag[w].pending)
                                  \/ Tail(ag[w].pending) = <<>>)]_vars

\* a turn of two tool calls was handled: assistant message, then the two
\* results in the order of the calls
C26_Witness ==
    \E i \in DOMAIN ag["parent"].messages :
        /\ i + 2 \in DOMAIN ag["parent"].messages
        /\ ag["parent"].messages[i].role = "assistant"
        /\ ag["parent"].messages[i + 1].role = "toolResult"
        /\ ag["parent"].messages[i + 1].n = 1
        /\ ag["parent"].messages[i + 1].toolName = "read"
        /\ ag["parent"].messages[i + 2].role = "toolResult"
        /\ ag["parent"].messages[i + 2].n = 2
        /\ ag["parent"].messages[i + 2].toolName = "no_such_tool"
        /\ ag["parent"].messages[i + 2].turn = ag["parent"].messages[i + 1].turn

\* C13: once a sub-agent run has completed, the session file of its
\* subSessionKey exists and holds the child's messages.
C13_SubSessionFileExists ==
    ag["child"].status = "completed" =>
        /\ ag["child"].sessionKey \in DOMAIN files
        /\ files[ag["child"].sessionKey] # <<>>

\* C14: a delegate_task call whose sub-agent run failed has an isError
\* toolResult in the parent's messages, and the parent run has not failed.
C14_ChildFailureIsToolResult ==
    \A j \in DOMAIN ag["parent"].handled :
        LET h == ag["parent"].handled[j]
        IN  (h.call.name = "delegate_task" /\ h.outcome = "threw") =>
                /\ ag["parent"].status # "failed"
                /\ \E i \in ResultsFor(ag["parent"], h.turn, h.n) :
                       ag["parent"].messages[i].isError

\* C15: a run with isSubAgent never invokes the sub-agent function; a
\* delegate_task call it makes gets an error tool result.
C15_NoRecursiveSpawn ==
    /\ invokedBy \subseteq {"parent"}
    /\ \A w \in Agents : ag[w].isSubAgent =>
          /\ ag[w].pc # "invoke"
          /\ \A j \in DOMAIN ag[w].handled :
                LET h == ag[w].handled[j]
                IN  h.call.name = "delegate_task" =>
                        /\ h.outcome = "result"
                        /\ ResultsFor(ag[w], h.turn, h.n) # {}
                        /\ \A i \in ResultsFor(ag[w], h.turn, h.n) :
                               ag[w].messages[i].isError

\* a sub-agent whose LLM asked for delegate_task and went on
C15_Witness ==
    /\ ag["child"].isSubAgent /\ "parent" \in invokedBy
    /\ \E j \in DOMAIN ag["child"].handled :
           ag["child"].handled[j].call.name = "delegate_task"

\* C16: a tool call whose body throws, or whose name is unknown, ends its
\* step with a result; that result is in the messages as one toolResult with
\* isError set, and the loop has gone on to the next call or iteration.
C16_ToolErrorsStayLocal ==
    \A w \in Agents : \A j \in ToolStepCalls(w) :
        LET h == ag[w].handled[j]
            known == h.call.name \in PiToolNames \cup CustomToolNames
        IN  ((known /\ h.call.argsValid /\ h.call.throws) \/ ~known) =>
                /\ h.outcome = "result"
                /\ Cardinality(ResultsFor(ag[w], h.turn, h.n)) = 1
                /\ \A i \in ResultsFor(ag[w], h.turn, h.n) : ag[w].messages[i].isError
                /\ ag[w].cause \notin {"tool"}
                /\ (j = Len(ag[w].handled) /\ ag[w].status = "running") =>
                       \/ ag[w].pc \in {"act", "invoke"} /\ ag[w].pending # <<>>
                       \/ ag[w].iterations > h.turn

\* a tool body threw, then an unknown tool was called, and the loop went on
C16_Witness ==
    /\ Len(ag["parent"].handled) = 2
    /\ ag["parent"].handled[1].call = ToolCall("read", TRUE, TRUE)
    /\ ag["parent"].handled[2].call.name = "no_such_tool"
    /\ ag["parent"].pc = "think"

\* C17: a tool call whose arguments fail the tool's schema ends its step with
\* an isError toolResult in the messages; neither the step nor the run fails.
C17_ValidationErrorIsToolResult ==
    \A w \in Agents : \A j \in ToolStepCalls(w) :
        LET h == ag[w].handled[j]
        IN  (h.call.name \in tools(ag[w]) /\ ~h.call.argsValid) =>
                /\ h.outcome = "result"
                /\ \E i \in ResultsFor(ag[w], h.turn, h.n) : ag[w].messages[i].isError
                /\ ag[w].cause # "validation"

\* C19: the first overflow-classified error of a run is recovered from (the
\* messages are summarized in place and the iteration is repeated without
\* being counted), and only the first: a second one is thrown, as is every
\* error that is not an overflow.
C19_OverflowRecoveryOnce ==
    \A w \in Agents :
        LET run == ag[w]
            recovered == IF run.overflows > 0 THEN 1 ELSE 0
        IN  /\ run.hasCompactedThisRun = (run.overflows > 0)
            /\ (run.cause = "llm") = (run.overflows > 1 \/ run.errors > 0)
            /\ run.overflows <= 2
            /\ run.iterations = (run.thinks - recovered)
                                + (IF run.status = "running" /\ run.pc = "think"
                                   THEN 1 ELSE 0)
            /\ \A i \in DOMAIN run.messages :
                  run.messages[i].text = "summary" => i = 1 /\ run.overflows > 0

\* a run that recovered from an overflow by summarizing, and then returned
C19_Witness ==
    /\ ag["parent"].overflows = 1 /\ ag["parent"].status = "completed"
    /\ ag["parent"].messages[1].text = "summary"
    /\ ag["parent"].iterations = 1 /\ ag["parent"].thinks = 2

\* a run whose second overflow was thrown
C19_WitnessRethrown ==
    ag["parent"].overflows = 2 /\ ag["parent"].status = "failed"

\* C32: in the messages array given to the first think step of a
\* handleMessage run, the incoming user message occurs exactly once, as the
\* last user message, and not also as the last entry of the loaded history.
C32_IncomingMessageOnce ==
    LET run == ag["parent"]
        copies == {i \in DOMAIN run.messages :
                      run.messages[i].role = "user" /\ run.messages[i].text = "userMessage"}
    IN  (run.status = "running" /\ run.pc = "think" /\ run.thinks = 0) =>
            copies = {Len(run.messages)}

\* the loop of run w has returned its RunResult
LoopReturned(w) == ag[w].pc = "return" \/ ag[w].status = "completed"

\* C31: in every RunResult returned, iterations is the number of think steps
\* less the number of overflow recoveries and lies between 1 and
\* maxIterations, and toolCalls is the number of tool calls the model emitted
\* in the run, each of them executed or delegated exactly once.
C31_RunResultCounters ==
    \A w \in Agents :
        LoopReturned(w) =>
            LET run == ag[w]
            IN  /\ run.iterations = run.thinks - run.overflows
                /\ 1 <= run.iterations /\ run.iterations <= maxIterations
                /\ run.totalToolCalls = run.emitted
                /\ Len(run.handled) = run.emitted
                /\ \A j \in DOMAIN run.handled :
                      /\ run.handled[j].n = j
                      /\ run.handled[j].outcome = "result"

\* a run returned after an overflow recovery, a tool call it executed and a
\* task it delegated
C31_Witness ==
    /\ ag["parent"].status = "completed"
    /\ ag["parent"].overflows = 1 /\ ag["parent"].totalToolCalls = 2
    /\ \E j \in DOMAIN ag["parent"].handled :
          ag["parent"].handled[j].call.name = "delegate_task"
    /\ \E j \in DOMAIN ag["parent"].handled :
          ag["parent"].handled[j].call.name = "read"

(***************************************************************************)
(* OverflowSpec: the main agent's loop when a response holds up to         *)
(* MaxReads tool calls, all of them reads that succeed, and a think step   *)
(* can fail with a context overflow.                                       *)
(***************************************************************************)
ReadResponses(run) ==
    {[stopReason |-> "stop", calls |-> <<>>, isOverflow |-> FALSE],
     [stopReason |-> "error", calls |-> <<>>, isOverflow |-> TRUE]}
    \cup {[stopReason |-> "toolUse", calls |-> [i \in 1..k |-> ToolCall("read", TRUE, FALSE)],
           isOverflow |-> FALSE] : k \in 1..(MaxReads - Len(run.handled))}

ThinkOfReads == ThinkAnswered("parent", ReadResponses(ag["parent"]))

OverflowNext ==
    \/ \E prior \in PriorRecords : Receive(prior)
    \/ LoadHistory("parent")
    \/ ThinkOfReads
    \/ ToolStep("parent")
    \/ SaveResponse

OverflowSpec == Init /\ [][OverflowNext]_vars

\* C34: after an overflow recovery, every toolResult message left in the
\* messages array comes after the assistant message that holds its tool call.
C34_ResultsFollowTheirCalls ==
    LET run == ag["parent"]
    IN  run.hasCompactedThisRun =>
            \A i \in DOMAIN run.messages :
                run.messages[i].role = "toolResult" =>
                    \E j \in 1..(i - 1) :
                        /\ run.messages[j].role = "assistant"
                        /\ run.messages[j].turn = run.messages[i].turn

(***************************************************************************)
(* LoadSpec: loadSession of src/lib/session.ts on a session file that      *)
(* appendToSession extends and in which a line can be malformed.           *)
(***************************************************************************)
\* the limits loadSession is called with: buildConversationHistory's and its
\* own default
LoadLimits == {maxMessages, 20}

\* appendToSession: appendFile creates the file when it is missing
AppendLine ==
    /\ Len(disk.lines) < MaxLines
    /\ disk' = [exists |-> TRUE,
                lines |-> appendToSession(disk.lines, "user", Text("msg", 1, 4), 0,
                                          Len(disk.lines))]
    /\ UNCHANGED loaded
    /\ UNCHANGED <<loopVars, prunerVars, heartbeatVars, replayVars, agentVars, rememberVars, failureVars, replyVars, transformVars, sendVars, cancelVars>>

\* a line that is not JSON gets into the file (an append cut short, an edit)
TornLine ==
    /\ Len(disk.lines) < MaxLines
    /\ disk' = [exists |-> TRUE, lines |-> Append(disk.lines, MalformedLine)]
    /\ UNCHANGED loaded
    /\ UNCHANGED <<loopVars, prunerVars, heartbeatVars, replayVars, agentVars, rememberVars, failureVars, replyVars, transformVars, sendVars, cancelVars>>

\* loadSession(sessionKey, maxMessages): readFile throws on a missing file
LoadSessionCall ==
    /\ \E n \in LoadLimits :
          loaded' = [called |-> TRUE, from |-> disk, maxMessages |-> n,
                     result |-> IF disk.exists THEN loadSession(disk.lines, n)
                                ELSE <<>>]
    /\ UNCHANGED disk
    /\ UNCHANGED <<loopVars, prunerVars, heartbeatVars, replayVars, agentVars, rememberVars, failureVars, replyVars, transformVars, sendVars, cancelVars>>

LoadNext == AppendLine \/ TornLine \/ LoadSessionCall
LoadSpec == Init /\ [][LoadNext]_vars

MalformedCount(lines) == Cardinality({i \in DOMAIN lines : ~Parses(lines[i])})

\* C20, as claimed: a missing file loads as the empty history, and a file
\* with one malformed line loads as its other records, in file order (the
\* last maxMessages of them).
C20_LoadSkipsBadLine ==
    loaded.called =>
        /\ (~loaded.from.exists) => loaded.result = <<>>
        /\ (MalformedCount(loaded.from.lines) = 1)
              => loaded.result = LastN(SelectSeq(loaded.from.lines, Parses),
                                       loaded.maxMessages)

(***************************************************************************)
(* RememberSpec: remember calls of runs of different sessions on the daily *)
(* log of one day.  appendDailyLog awaits readDailyLog and then writeFile, *)
(* so calls interleave between the two.                                    *)
(***************************************************************************)
\* const existing = await readDailyLog(d)
RememberRead(c) ==
    /\ rem[c].pc = "idle" /\ rem[c].calls < MaxNotes
    /\ rem' = [rem EXCEPT ![c].pc = "read", ![c].existing = dayLog,
                          ![c].calls = @ + 1]
    /\ UNCHANGED dayLog
    /\ UNCHANGED <<loopVars, prunerVars, heartbeatVars, replayVars, agentVars, loadVars, failureVars, replyVars, transformVars, sendVars, cancelVars>>

\* await writeFile(path, content); return { result: "Saved to today's log." }
RememberWrite(c) ==
    /\ rem[c].pc = "read"
    /\ dayLog' = DailyLogContent(rem[c].existing, Note(c, rem[c].calls))
    /\ rem' = [rem EXCEPT ![c].pc = "idle", ![c].existing = <<>>,
                          ![c].saved = @ \cup {Note(c, rem[c].calls)}]
    /\ UNCHANGED <<loopVars, prunerVars, heartbeatVars, replayVars, agentVars, loadVars, failureVars, replyVars, transformVars, sendVars, cancelVars>>

RememberNext == \E c \in Rememberers : RememberRead(c) \/ RememberWrite(c)
RememberSpec == Init /\ [][RememberNext]_vars

InDayLog(note) == \E i \in DOMAIN dayLog : dayLog[i] = note

\* C21, as claimed: every note whose remember call returned success is in
\* the daily log of the day.
C21_SavedNotesRemain ==
    \A c \in Rememberers : \A note \in rem[c].saved : InDayLog(note)

(***************************************************************************)
(* FailureSpec: agent-handle-message runs that have failed with their      *)
(* retries spent, and the global-failure-handler runs the substrate starts *)
(* on their inngest/function.failed events.                                *)
(***************************************************************************)
HandleMessageFailures ==
    {i \in DOMAIN failed : failed[i].function_id = "agent-handle-message"}

\* the substrate emits inngest/function.failed, which triggers failureHandler
Emit(ev) ==
    /\ failed' = Append(failed, ev)
    /\ fh' = Append(fh, [pc |-> "start", status |-> "running", attempt |-> 0])

\* an agent-handle-message run fails after its last retry
HandleMessageFails ==
    /\ Cardinality(HandleMessageFailures) < MaxFailures
    /\ \E channel \in EventChannels, destination \in Destinations :
          Emit(FunctionFailed("agent-handle-message", channel, destination))
    /\ UNCHANGED notices
    /\ UNCHANGED <<loopVars, prunerVars, heartbeatVars, replayVars, agentVars, loadVars, rememberVars, replyVars, transformVars, sendVars, cancelVars>>

\* failureHandler up to the step notify-channel
FailureHandlerStarts(i) ==
    /\ fh[i].pc = "start"
    /\ fh' = [fh EXCEPT ![i] =
                 IF HasHandler(failed[i].channel)
                 THEN [@ EXCEPT !.pc = "notify-channel"]
                 ELSE [@ EXCEPT !.pc = "done", !.status = "completed"]]
    /\ UNCHANGED <<failed, notices>>
    /\ UNCHANGED <<loopVars, prunerVars, heartbeatVars, replayVars, agentVars, loadVars, rememberVars, replyVars, transformVars, sendVars, cancelVars>>

\* step notify-channel: sendReply delivers, or throws and the step is retried
\* until the handler's retries are spent; the handler's own failure is a
\* function.failed event as well (of an event without channel)
NotifyChannel(i) ==
    /\ fh[i].pc = "notify-channel"
    /\ \E delivered \in BOOLEAN :
          IF ~SendReplyThrows(failed[i], delivered)
          THEN /\ notices' = Append(notices, Notice(i, failed[i]))
               /\ fh' = [fh EXCEPT ![i].pc = "done", ![i].status = "completed"]
               /\ UNCHANGED failed
          ELSE IF fh[i].attempt < failureHandlerRetries
          THEN /\ fh' = [fh EXCEPT ![i].attempt = @ + 1]
               /\ UNCHANGED <<failed, notices>>
          ELSE /\ failed' = Append(failed, HandlerFailed(failed[i]))
               /\ fh' = [Append(fh, [pc |-> "start", status |-> "running", attempt |-> 0])
                           EXCEPT ![i].pc = "done", ![i].status = "failed"]
               /\ UNCHANGED notices
    /\ UNCHANGED <<loopVars, prunerVars, heartbeatVars, replayVars, agentVars, loadVars, rememberVars, replyVars, transformVars, sendVars, cancelVars>>

FailureNext ==
    \/ HandleMessageFails
    \/ \E i \in DOMAIN fh : FailureHandlerStarts(i) \/ NotifyChannel(i)
FailureSpec == Init /\ [][FailureNext]_vars

NoticesAbout(i) == {n \in DOMAIN notices : notices[n].about = i}

\* C22, as claimed: once the failure handler has run for a failed
\* agent-handle-message run, an error message has been sent through the
\* originating channel to the originating destination.
C22_FailedRunNotifies ==
    \A i \in HandleMessageFailures :
        (fh[i].status = "completed")
            => \E n \in NoticesAbout(i) :
                  /\ notices[n].channel = failed[i].channel
                  /\ notices[n].destination = failed[i].destination

\* C22, amended: the failure handler, once completed for a failed
\* agent-handle-message run, has sent exactly one error message, through the
\* originating channel to the originating destination, when that channel
\* has a registered handler, and none otherwise; and no message is ever sent
\* but through the channel and to the destination of the event it is about.
C22_FailedRunNotifiesRegistered ==
    /\ \A i \in HandleMessageFailures :
          (fh[i].status = "completed")
              => Cardinality(NoticesAbout(i))
                     = (IF failed[i].channel \in CHANNELS THEN 1 ELSE 0)
    /\ \A n \in DOMAIN notices :
          /\ notices[n].about \in HandleMessageFailures
          /\ notices[n].channel = failed[notices[n].about].channel
          /\ notices[n].channel \in CHANNELS
          /\ notices[n].destination = failed[notices[n].about].destination
          /\ notices[n].destination # <<>>

\* a failed slack run was notified, after a first sendReply had thrown
C22_Witness ==
    \E i \in HandleMessageFailures :
        /\ fh[i].status = "completed" /\ fh[i].attempt = 1
        /\ failed[i].channel = "slack" /\ NoticesAbout(i) # {}

HandlerFailures ==
    {i \in DOMAIN failed : failed[i].function_id = "global-failure-handler"}

\* C38: the failure of failureHandler's own notification starts no further
\* notification: the handler run triggered by it sends nothing and does not
\* fail, so a failed run is followed by at most one inngest/function.failed
\* event of the handler and the chain ends there.
C38_FailureChainEnds ==
    /\ \A i \in HandlerFailures :
          /\ fh[i].pc \in {"start", "done"}
          /\ fh[i].status \in {"running", "completed"}
          /\ NoticesAbout(i) = {}
    /\ Cardinality(HandlerFailures) <= Cardinality(HandleMessageFailures)
    /\ Len(failed) <= 2 * MaxFailures

\* the handler has run on the failure of its own notification, and is done
C38_Witness ==
    \E i \in HandlerFailures :
        /\ fh[i].status = "completed"
        /\ \E j \in HandleMessageFailures : fh[j].status = "failed" /\ j < i

(***************************************************************************)
(* TransformSpec: webhook deliveries, each run through the transform of    *)
(* its channel's webhook.                                                  *)
(***************************************************************************)
SlackWebhook ==
    /\ \E evt \in SlackPayloads :
          hook' = [channel |-> "slack", payload |-> evt, result |-> slackTransform(evt)]
    /\ UNCHANGED <<loopVars, prunerVars, heartbeatVars, replayVars, agentVars, loadVars, rememberVars, failureVars, replyVars, sendVars, cancelVars>>

TelegramWebhook ==
    /\ \E evt \in TelegramPayloads :
          hook' = [channel |-> "telegram", payload |-> evt,
                   result |-> telegramTransform(evt)]
    /\ UNCHANGED <<loopVars, prunerVars, heartbeatVars, replayVars, agentVars, loadVars, rememberVars, failureVars, replyVars, sendVars, cancelVars>>

TransformNext == SlackWebhook \/ TelegramWebhook
TransformSpec == Init /\ [][TransformNext]_vars

\* C24, as claimed: a Slack delivery that carries the retry header is mapped
\* to an event name other than agent.message.received.
C24_RetriesBypassAgent ==
    (hook.channel = "slack" /\ hook.payload.retryNum > 0)
        => hook.result.name # "agent.message.received"

SlackDiscardNames ==
    {"slack/url.verification", "slack/event.unsupported",
     "slack/message.unsupported", "slack/transform.failed"}
TelegramDiscardNames == {"telegram/message.unsupported", "telegram/transform.failed"}

\* a Slack payload of a text message a user wrote
SlackUserText(evt) ==
    /\ evt.isObject /\ evt.type = "event_callback" /\ evt.hasEvent
    /\ evt.eventType \in {"message", "app_mention"}
    /\ evt.text = "text" /\ ~evt.subtype /\ ~evt.bot_id

\* C29: the transforms return an event for every payload (nothing is thrown);
\* the event is agent.message.received, of the channel, only for a text
\* message of a user; a Slack payload that is not an event_callback, or whose
\* event is neither message nor app_mention, has no text, has a subtype or a
\* bot_id, and a Telegram payload without message text, get one of the
\* discard names of their channel.
C29_TransformsClassify ==
    /\ hook.result # Threw
    /\ (hook.channel = "slack") =>
          /\ hook.result.name \in SlackDiscardNames \cup {"agent.message.received"}
          /\ (hook.result.name = "agent.message.received")
                => (SlackUserText(hook.payload) /\ hook.result.channel = "slack")
          /\ (~SlackUserText(hook.payload)) => hook.result.name \in SlackDiscardNames
    /\ (hook.channel = "telegram") =>
          /\ hook.result.name \in TelegramDiscardNames \cup {"agent.message.received"}
          /\ (hook.result.name = "agent.message.received")
                => /\ hook.payload.isObject /\ hook.payload.hasMessage
                   /\ hook.payload.text = "text" /\ hook.result.channel = "telegram"
          /\ (~hook.payload.isObject \/ ~hook.payload.hasMessage
                  \/ hook.payload.text # "text")
                => hook.result.name \in TelegramDiscardNames

\* a telegram text message without chat: the property access throws inside
\* the try block and the catch returns the failed event
C29_Witness ==
    /\ hook.channel = "telegram" /\ hook.payload.text = "text"
    /\ hook.payload.hasMessage /\ ~hook.payload.hasChat
    /\ hook.result.name = "telegram/transform.failed"

(***************************************************************************)
(* SendSpec: one send-reply run for a response of several chunks, whose    *)
(* posts to the channel can fail.                                          *)
(***************************************************************************)
\* an agent.reply.ready event triggers the function; step "send" starts
\* const chunks = splitMessage(response)
ReplyReady(chunks) ==
    /\ sending.status = "none"
    /\ sending' = [status |-> "running", chunks |-> chunks, attempt |-> 0, chunk |-> 1]
    /\ UNCHANGED posted
    /\ UNCHANGED <<loopVars, prunerVars, heartbeatVars, replayVars, agentVars, loadVars, rememberVars, failureVars, replyVars, transformVars, cancelVars>>

\* for (const chunk of chunks) { try { postMessage(formatted) } catch
\* { postMessage(plain) or throw } }: one pass of the loop
PostChunk(outcome) ==
    /\ sending.status = "running"
    /\ IF outcome = "throws"
       THEN /\ sending' = AfterThrow(sending)
            /\ UNCHANGED posted
       ELSE /\ posted' = Append(posted, [chunk |-> sending.chunk, as |-> outcome])
            /\ sending' = IF sending.chunk = sending.chunks
                          THEN [sending EXCEPT !.status = "completed"]
                          ELSE [sending EXCEPT !.chunk = @ + 1]
    /\ UNCHANGED <<loopVars, prunerVars, heartbeatVars, replayVars, agentVars, loadVars, rememberVars, failureVars, replyVars, transformVars, cancelVars>>

SendNext ==
    \/ \E chunks \in 1..MaxChunks : ReplyReady(chunks)
    \/ \E outcome \in PostOutcomes : PostChunk(outcome)

SendSpec == Init /\ [][SendNext]_vars

Deliveries(c) == Cardinality({i \in DOMAIN posted : posted[i].chunk = c})

\* C37: across the retries of one send-reply run, each chunk of a reply of
\* several chunks is delivered to the channel at most once.
C37_ChunkDeliveredOnce ==
    \A c \in 1..MaxChunks : Deliveries(c) <= 1

\* the loop of run r has returned its RunResult to handleMessage
HoldsResult(r) ==
    \/ runs[r].status = "completed"
    \/ runs[r].status = "running" /\ runs[r].pc \in {"save-response", "reply"}

\* C40: RunResult.response is never the empty string: a loop that has
\* returned holds the model's non-empty final text or the max-iterations
\* message, so every assistant record saved and every reply emitted is
\* non-empty.
C40_ResponseNeverEmpty ==
    /\ \A r \in Runs :
          HoldsResult(r) =>
              /\ runs[r].finalResponse.len > 0
              /\ \/ runs[r].finalResponse = MaxIterText
                 \/ runs[r].finalResponse = Text("text", r, ReplyTextLen)
    /\ \A k \in SessionKeys : \A i \in DOMAIN session[k] :
          (session[k][i].role = "assistant") => session[k][i].content.len > 0
    /\ \A i \in DOMAIN replies : replies[i].response.len > 0

\* a loop has returned the max-iterations message after a think that came
\* back with neither tool calls nor text; and a reply with the model's text
\* has been emitted and saved
C40_Witness ==
    /\ \E r \in Runs :
          /\ runs[r].status = "running" /\ runs[r].pc = "save-response"
          /\ runs[r].finalResponse = MaxIterText
          /\ ~runs[r].onlyToolCalls /\ runs[r].thinks = runs[r].iterations
    /\ \E i \in DOMAIN replies :
          /\ replies[i].response.kind = "text"
          /\ AssistantRecordsWith(replies[i].run, replies[i].response) # {}

(***************************************************************************)
(* CancelSpec: AgentSpec with a newer message of the session arriving      *)
(* while the run awaits the sub-agent it invoked.  cancelOn is declared by *)
(* handleMessage alone; the sub-agent function declares neither cancelOn   *)
(* nor a concurrency key, so no event ends its run.  The model keeps one   *)
(* sub-agent run: the run of the newer message delegates nothing.          *)
(***************************************************************************)
\* cancelOn of handleMessage matches: the run in flight is cancelled, and
\* the run of the newer message starts with step "save-incoming"
NewerMessageCancels ==
    /\ ag["parent"].status = "running" /\ ag["parent"].pc = "invoke"
    /\ cancelled.status = "none"
    /\ cancelled' = [ag["parent"] EXCEPT !.status = "cancelled", !.pc = "none"]
    /\ files' = WriteFile(ParentKey,
                    appendToSession(ReadFile(ParentKey), "user", IncomingText, 0,
                                    Len(ReadFile(ParentKey))))
    /\ ag' = [ag EXCEPT !["parent"] = AgentRun(ParentKey, FALSE)]
    /\ UNCHANGED invokedBy
    /\ UNCHANGED <<loopVars, prunerVars, heartbeatVars, replayVars, loadVars, rememberVars, failureVars, replyVars, transformVars, sendVars>>

\* step.invoke("sub-agent", ...) of the first run
InvokeFirst(w) == cancelled.status = "none" /\ Invoke(w)

\* What the LLM answers to the run of the newer message: a final text, or
\* (once in the run) one call of the read tool.
LaterResponses(run) ==
    {[stopReason |-> "stop", calls |-> <<>>, isOverflow |-> FALSE]}
    \cup {[stopReason |-> "toolUse", calls |-> c, isOverflow |-> FALSE] :
              c \in IF Len(run.handled) = 0
                    THEN {<<ToolCall("read", TRUE, FALSE)>>} ELSE {}}

CancelNext ==
    \/ \E prior \in PriorRecords : Receive(prior)
    \/ \E w \in Agents : LoadHistory(w) \/ ToolStep(w)
    \/ Think("child")
    \/ ThinkAnswered("parent", IF cancelled.status = "none"
                               THEN AgentResponses(ag["parent"])
                               ELSE LaterResponses(ag["parent"]))
    \/ \E w \in Agents : InvokeFirst(w)
    \/ ChildReturns
    \/ InvokeReturns
    \/ InvokeFails
    \/ SaveResponse
    \/ NewerMessageCancels

CancelSpec == Init /\ [][CancelNext]_vars

\* the sub-agent run takes a think step or handles a tool call
SubAgentSteps ==
    \/ ag'["child"].thinks # ag["child"].thinks
    \/ ag'["child"].handled # ag["child"].handled

\* C39: once the run that invoked it is cancelled, the sub-agent run executes
\* no further think or tool substep; in particular none while the run of the
\* newer message is in flight.
C39_CancelledRunStopsSubAgent ==
    [][cancelled.status = "cancelled" => ~SubAgentSteps]_vars

====
